---- MODULE Spec2Model ----
(***************************************************************************)
(* A model of python-debpkgr: the repository metadata object (AptRepoMeta),*)
(* its component/architecture indexes, repository creation and parsing     *)
(* (AptRepo) and the signer (SignOptions, Signer).                         *)
(*                                                                         *)
(* Python strings are TLA+ strings; lists are sequences; dictionaries are  *)
(* functions whose DOMAIN is the set of keys; an optional argument is a    *)
(* set with at most one element ({} is None).                              *)
(***************************************************************************)
EXTENDS Integers, Sequences, FiniteSets, TLC

VARIABLES
    release,    \* AptRepoMeta.release: the fields of the Release document
    cabs,       \* AptRepoMeta._component_arch_binaries
    fs,         \* the file system: path -> entry
    result,     \* the outcome of the last call (return value or exception)
    sopts,      \* the SignOptions object given to AptRepo (its __dict__)
    spawned,    \* the processes spawned by Signer.sign, in order
    events,     \* the file writes and process spawns of the last call, in order
    parsed,     \* the repository object returned by the last parse
    environ,    \* the mapping returned by the last as_environment call
    hasher,     \* the Hasher object under test (its __dict__)
    fed,        \* the data given to hasher.update since it was last reset, or
                \* written through writer while its files were open
    opener,     \* the compressr.Opener object under test (its __dict__)
    fnames,     \* the list of file names the caller of best_choice holds
    debs,       \* the two DebPkg objects under comparison
    heap,       \* the mutable objects instances may share: identity -> value
    insts,      \* the instances under test, holding identities of heap
    writer,     \* the compressr.MultiWriter object under test (its __dict__)
    pc          \* the position of the makedirs call in progress

vars == <<release, cabs, fs, result, sopts, spawned, events, parsed, environ,
          hasher, fed, opener, fnames, debs, heap, insts, writer, pc>>

\* the state of AptRepoMeta, AptRepo and the signer
repository == <<release, cabs, fs, sopts, spawned, events, parsed, environ>>

\* the state of the Hasher, Opener and DebPkg objects
library == <<hasher, fed, opener, fnames, debs, heap, insts, writer, pc>>

\* no instance, MultiWriter or makedirs call exists
NoObjects == heap = <<>> /\ insts = <<>> /\ writer = {} /\ pc = "idle"

\* no Hasher, Opener or DebPkg object has been constructed
NoLibrary ==
    /\ hasher = {} /\ fed = "" /\ opener = {} /\ fnames = <<>> /\ debs = <<>>
    /\ NoObjects

(***************************************************************************)
(* Strings and paths                                                       *)
(***************************************************************************)

Char(s, i) == SubSeq(s, i, i)

StartsWith(s, p) == Len(s) >= Len(p) /\ SubSeq(s, 1, Len(p)) = p

EndsWith(s, p) == Len(s) >= Len(p) /\ SubSeq(s, Len(s) - Len(p) + 1, Len(s)) = p

\* sep.join(xs)
RECURSIVE Join(_, _)
Join(xs, sep) ==
    IF xs = <<>> THEN ""
    ELSE IF Len(xs) = 1 THEN xs[1]
    ELSE xs[1] \o sep \o Join(Tail(xs), sep)

\* s.split(): the whitespace-separated words of s
RECURSIVE SplitFrom(_, _, _)
SplitFrom(s, i, cur) ==
    IF i > Len(s) THEN (IF cur = "" THEN <<>> ELSE <<cur>>)
    ELSE IF Char(s, i) = " "
         THEN (IF cur = "" THEN <<>> ELSE <<cur>>) \o SplitFrom(s, i + 1, "")
         ELSE SplitFrom(s, i + 1, cur \o Char(s, i))

Split(s) == SplitFrom(s, 1, "")

\* the index of the last "/" of p, 0 when there is none
RECURSIVE LastSlash(_, _)
LastSlash(p, i) ==
    IF i = 0 THEN 0
    ELSE IF Char(p, i) = "/" THEN i
    ELSE LastSlash(p, i - 1)

\* os.path.dirname
Dirname(p) ==
    LET i == LastSlash(p, Len(p))
    IN  IF i = 0 THEN "" ELSE IF i = 1 THEN "/" ELSE SubSeq(p, 1, i - 1)

\* os.path.basename
Basename(p) == SubSeq(p, LastSlash(p, Len(p)) + 1, Len(p))

\* os.path.join(a, b)
PathJoin(a, b) ==
    IF StartsWith(b, "/") THEN b
    ELSE IF a = "" \/ EndsWith(a, "/") THEN a \o b
    ELSE a \o "/" \o b

RECURSIVE PathJoinAll(_)
PathJoinAll(xs) ==
    IF Len(xs) = 1 THEN xs[1]
    ELSE PathJoinAll(<<PathJoin(xs[1], xs[2])>> \o SubSeq(xs, 3, Len(xs)))

LowerCase == "abcdefghijklmnopqrstuvwxyz"
UpperCase == "ABCDEFGHIJKLMNOPQRSTUVWXYZ"

\* c.upper() for a one-character string
UpperChar(c) ==
    IF \E i \in 1..Len(LowerCase) : Char(LowerCase, i) = c
    THEN Char(UpperCase, CHOOSE i \in 1..Len(LowerCase) : Char(LowerCase, i) = c)
    ELSE c

\* s.upper()
RECURSIVE Upper(_)
Upper(s) == IF s = "" THEN "" ELSE UpperChar(Char(s, 1)) \o Upper(SubSeq(s, 2, Len(s)))

\* s.capitalize() for a string of letters: the first in upper case, the
\* others in lower case
Capitalized(s) ==
    LET lower(c) == IF \E i \in 1..Len(UpperCase) : Char(UpperCase, i) = c
                    THEN Char(LowerCase, CHOOSE i \in 1..Len(UpperCase) :
                                            Char(UpperCase, i) = c)
                    ELSE c
        rest[i \in 1..(Len(s) + 1)] ==
            IF i > Len(s) THEN "" ELSE lower(Char(s, i)) \o rest[i + 1]
    IN  IF s = "" THEN "" ELSE UpperChar(Char(s, 1)) \o rest[2]

\* s.replace(a, b) for a one-character a
RECURSIVE Replace(_, _, _)
Replace(s, a, b) ==
    IF s = "" THEN ""
    ELSE (IF Char(s, 1) = a THEN b ELSE Char(s, 1)) \o Replace(SubSeq(s, 2, Len(s)), a, b)

\* sub in s
Contains(s, sub) ==
    \E i \in 1..(Len(s) - Len(sub) + 1) : SubSeq(s, i, i + Len(sub) - 1) = sub

\* shlex.split(s): the words of s, a double-quoted segment staying one word
\* without its quotes
RECURSIVE ShlexFrom(_, _, _, _, _)
ShlexFrom(s, i, cur, started, quoted) ==
    IF i > Len(s) THEN (IF started THEN <<cur>> ELSE <<>>)
    ELSE LET c == Char(s, i)
         IN  IF c = "\""
             THEN ShlexFrom(s, i + 1, cur, TRUE, ~quoted)
             ELSE IF c = " " /\ ~quoted
             THEN (IF started THEN <<cur>> ELSE <<>>)
                      \o ShlexFrom(s, i + 1, "", FALSE, FALSE)
             ELSE ShlexFrom(s, i + 1, cur \o c, TRUE, quoted)

ShlexSplit(s) == ShlexFrom(s, 1, "", FALSE, FALSE)

InSeq(x, xs) == \E i \in 1..Len(xs) : xs[i] = x

Range(xs) == {xs[i] : i \in 1..Len(xs)}

\* x or d, for an optional string x
OrElse(x, d) == IF x = {} \/ x = {""} THEN d ELSE CHOOSE v \in x : TRUE

(***************************************************************************)
(* Digests and sizes.  A digest identifies the algorithm and the bytes it  *)
(* was computed over; two files have the same digest exactly when they     *)
(* hold the same bytes.                                                    *)
(***************************************************************************)

\* hashlib.<alg>(data).hexdigest()
HexDigest(alg, data) == <<alg, data>>

(***************************************************************************)
(* AptRepoMeta and ComponentArchBinary.  A deb822 document is a function   *)
(* from its keys to their values; deb822 compares keys without regard to   *)
(* case, so keys are written in lower case.  A meta object is the record   *)
(* [release, cabs, upstream_url].                                          *)
(***************************************************************************)

REPO_VERSION == "1.0"

\* the value time.strftime gives the Date field
Now == "<now>"

\* dict.setdefault(k, v)
SetDefault(d, k, v) == IF k \in DOMAIN d THEN d ELSE (k :> v) @@ d

\* d[k] = v
SetItem(d, k, v) == (k :> v) @@ d

\* dict.pop(k, None)
PopItem(d, k) == [x \in (DOMAIN d) \ {k} |-> d[x]]

\* dict.get(k, default)
GetItem(d, k, default) == IF k \in DOMAIN d THEN d[k] ELSE default

set_date(rel) == SetDefault(rel, "date", Now)

\* AptRepoMeta.__init__: rel0 is the release given ({} when None), the other
\* arguments are optional
AptRepoMetaInit(rel0, origin, label, version, description, codename, components, architectures, upstream_url) ==
    LET r0 == IF rel0 = {} THEN <<>> ELSE CHOOSE r \in rel0 : TRUE
        archs == IF architectures = {} THEN <<"amd64", "i386">>
                 ELSE CHOOSE v \in architectures : TRUE
        comps == IF components = {} THEN <<>> ELSE CHOOSE v \in components : TRUE
        r1 == SetDefault(r0, "architectures", Join(archs, " "))
        r2 == SetDefault(r1, "components", Join(comps, " "))
        r3 == SetDefault(r2, "codename", OrElse(codename, "foo"))
        cn == r3["codename"]
        r4 == SetDefault(r3, "suite", cn)
        r5 == SetDefault(r4, "description", OrElse(description, cn))
        r6 == SetDefault(r5, "origin", OrElse(origin, cn))
        og == r6["origin"]
        r7 == SetDefault(r6, "label", OrElse(label, og))
        r8 == SetDefault(r7, "version", OrElse(version, REPO_VERSION))
    IN  [release |-> set_date(r8), cabs |-> <<>>, upstream_url |-> upstream_url]

\* the architectures property
architectures(rel) == Split(GetItem(rel, "architectures", ""))

\* the components property
components(rel) == Split(GetItem(rel, "components", ""))

\* the codename property
codename(rel) == rel["codename"]

\* the architectures setter
set_architectures(rel, values) == SetItem(rel, "architectures", Join(values, " "))

\* ComponentArchBinary.__init__ as add_component_arch_binary calls it
ComponentArchBinaryInit(meta, dist) ==
    [release |-> [k \in DOMAIN meta |-> meta[k]], packages |-> <<>>, dist |-> dist]

\* "Component %s not supported (expected: %s)"
ComponentErrorMessage(component, declared) ==
    "Component " \o component \o " not supported (expected: "
        \o Join(declared, ", ") \o ")"

\* "Architecture %s not defined (expected: %s)"
ArchitectureErrorMessage(architecture, declared) ==
    "Architecture " \o architecture \o " not defined (expected: "
        \o Join(declared, ", ") \o ")"

\* a call's outcome: it returned ret (a tuple: <<>> for None, <<i>> for the
\* index at position i of cabs), or raised exc with message msg
Returned(ret) == [ok |-> TRUE, ret |-> ret]
Raised(exc, msg) == [ok |-> FALSE, exc |-> exc, msg |-> msg]

\* AptRepoMeta.add_component_arch_binary(meta=dict(component=, architecture=)):
\* the meta object after the call and the outcome (the position of the new
\* index in cabs)
add_component_arch_binary(m, component, architecture) ==
    LET meta == [component |-> component, architecture |-> architecture,
                 origin |-> m.release["origin"], label |-> m.release["label"],
                 description |-> m.release["description"]]
        obj == ComponentArchBinaryInit(meta, m.release["codename"])
    IN  IF ~InSeq(obj.release.component, components(m.release))
        THEN [meta |-> m,
              out |-> Raised("ValueError",
                             ComponentErrorMessage(obj.release.component,
                                                   components(m.release)))]
        ELSE IF ~InSeq(obj.release.architecture, architectures(m.release))
        THEN [meta |-> m,
              out |-> Raised("ValueError",
                             ArchitectureErrorMessage(obj.release.architecture,
                                                      architectures(m.release)))]
        ELSE [meta |-> [m EXCEPT !.cabs = Append(@, obj)],
              out |-> Returned(<<Len(m.cabs) + 1>>)]

\* AptRepoMeta.get_component_arch_binary
get_component_arch_binary(m, component, architecture) ==
    LET found == {i \in 1..Len(m.cabs) :
                    /\ m.cabs[i].release.component = component
                    /\ m.cabs[i].release.architecture = architecture}
    IN  IF found # {}
        THEN [meta |-> m,
              out |-> Returned(<<CHOOSE i \in found : \A j \in found : i <= j>>)]
        ELSE add_component_arch_binary(m, component, architecture)

(***************************************************************************)
(* The file system.  fs maps a path to a regular file [type |-> "file",    *)
(* data |-> ...] or to a symbolic link [type |-> "link", target |-> path]. *)
(* Directories are implicit.                                               *)
(***************************************************************************)

File(data) == [type |-> "file", data |-> data]
Link(target) == [type |-> "link", target |-> target]
Dir == [type |-> "dir"]

\* the path a system call that follows symbolic links acts on
RealPath(f, p) ==
    IF p \in DOMAIN f /\ f[p].type = "link" THEN f[p].target ELSE p

\* os.path.exists: false for a symbolic link whose target is missing
PathExists(f, p) ==
    /\ RealPath(f, p) \in DOMAIN f
    /\ f[RealPath(f, p)].type = "file"

\* os.path.lexists
PathLExists(f, p) == p \in DOMAIN f

\* the bytes open(p, "rb").read() gives; PathExists(f, p) is required
ReadFile(f, p) == f[RealPath(f, p)].data

\* os.path.isfile
IsFile(f, p) == PathExists(f, p)

\* os.access(p, os.X_OK), for a file p
IsExecutable(f, p) ==
    /\ IsFile(f, p)
    /\ "exec" \in DOMAIN ReadFile(f, p)
    /\ ReadFile(f, p).exec

\* open(p, "wb").write(data): writes through a symbolic link, and into the
\* file that is there when there is one
WriteFile(f, p, data) ==
    LET q == RealPath(f, p)
    IN  IF q \in DOMAIN f /\ f[q].type = "file"
        THEN SetItem(f, q, [f[q] EXCEPT !.data = data])
        ELSE SetItem(f, q, File(data))

\* os.unlink(p)
Unlink(f, p) == PopItem(f, p)

(***************************************************************************)
(* DebPkg.  The bytes of a .deb file are [control, bytes, size]: the       *)
(* control stanza the archive holds, the identity of its bytes and their   *)
(* number.  A DebPkg is [c |-> control stanza, h |-> whole-archive hashes].*)
(***************************************************************************)

\* hasher.deb_hash_file(path)
deb_hash_file(f, path) ==
    [md5sum |-> HexDigest("md5", ReadFile(f, path).bytes),
     sha1   |-> HexDigest("sha1", ReadFile(f, path).bytes),
     sha256 |-> HexDigest("sha256", ReadFile(f, path).bytes)]

\* str(os.stat(path).st_size)
StatSize(f, path) == ToString(ReadFile(f, path).size)

\* DebPkg.from_file(path, Size=sz)
from_file(f, path, sz) ==
    [c |-> SetItem(ReadFile(f, path).control, "size", sz),
     h |-> deb_hash_file(f, path)]

\* DebPkg.nevra
nevra(pkg) == Join(<<pkg.c["package"], pkg.c["version"], pkg.c["architecture"]>>, "_")

\* DebPkg.filename
filename(pkg) == nevra(pkg) \o ".deb"

\* the relative_path setter
set_relative_path(pkg, value) == [pkg EXCEPT !.c = SetItem(@, "filename", value)]

\* DebPkg.package: the stanza written to a Packages index
package(pkg) == pkg.h @@ pkg.c

\* a pool that has no directory per component
pool_relative_path_of_every_component(obj) == "pool"

\* ComponentArchBinary.pool_relative_path
pool_relative_path(obj) == PathJoin("pool", obj.release.component)

\* ComponentArchBinary.pool_path
pool_path(obj, base_path) == PathJoin(base_path, pool_relative_path(obj))

\* AptRepo._add_package: the file system after the call and the outcome
_add_package(f, fname, destination, with_symlinks) ==
    IF with_symlinks
    THEN LET f1 == IF PathExists(f, destination) THEN Unlink(f, destination) ELSE f
         IN  IF PathLExists(f1, destination)
             THEN [fs |-> f1, out |-> Raised("OSError", "File exists")]
             ELSE [fs |-> SetItem(f1, destination, Link(fname)), out |-> Returned(<<>>)]
    ELSE IF RealPath(f, destination) = RealPath(f, fname)
         THEN [fs |-> f, out |-> Raised("SameFileError", "are the same file")]
         ELSE [fs |-> WriteFile(f, destination, ReadFile(f, fname)),
               out |-> Returned(<<>>)]

\* the loop of AptRepo.add_packages over filenames, for the index at position
\* idx: the meta object, the file system and the outcome when it ends
RECURSIVE add_packages_loop(_, _, _, _, _, _)
add_packages_loop(m, f, base_path, idx, filenames, with_symlinks) ==
    IF filenames = <<>> THEN [meta |-> m, fs |-> f, out |-> Returned(<<idx>>)]
    ELSE LET fname == Head(filenames)
             obj == m.cabs[idx]
         IN  IF ~PathExists(f, fname)
             THEN [meta |-> m, fs |-> f,
                   out |-> Raised("OSError", "No such file or directory")]
             ELSE LET sz == StatSize(f, fname)
                      pkg0 == from_file(f, fname, sz)
                      dst_path == PathJoin(pool_path(obj, base_path), filename(pkg0))
                      pkg == set_relative_path(
                                 pkg0, PathJoin(pool_relative_path(obj), filename(pkg0)))
                      added == _add_package(f, fname, dst_path, with_symlinks)
                  IN  IF ~added.out.ok
                      THEN [meta |-> m, fs |-> added.fs, out |-> added.out]
                      ELSE add_packages_loop(
                               [m EXCEPT !.cabs[idx].packages = Append(@, pkg)],
                               added.fs, base_path, idx, Tail(filenames), with_symlinks)

\* AptRepo.add_packages
add_packages(m, f, base_path, filenames, component, architecture, with_symlinks) ==
    LET got == get_component_arch_binary(m, component, architecture)
    IN  IF ~got.out.ok THEN [meta |-> m, fs |-> f, out |-> got.out]
        ELSE add_packages_loop(got.meta, f, base_path, got.out.ret[1], filenames,
                               with_symlinks)

(***************************************************************************)
(* The callers' inputs                                                     *)
(***************************************************************************)

\* the most package files one run adds to the indexes
MaxPkgs == 2

BasePath == "/repo"

\* the .deb files the caller has: two builds of foo for amd64 with the same
\* name, version and architecture and different bytes, and bar for i386
SrcFiles ==
    ("/in/foo.deb" :> File([control |-> [package |-> "foo", version |-> "0.0.1-1",
                                         architecture |-> "amd64"],
                            bytes |-> 1, size |-> 21])) @@
    ("/in/foo2.deb" :> File([control |-> [package |-> "foo", version |-> "0.0.1-1",
                                          architecture |-> "amd64"],
                             bytes |-> 2, size |-> 22])) @@
    ("/in/bar.deb" :> File([control |-> [package |-> "bar", version |-> "0.1.1-1",
                                         architecture |-> "i386"],
                            bytes |-> 3, size |-> 23]))

\* what an earlier repository may have left in the pool: a symbolic link to
\* a build of foo that was removed since
StaleLink == "/repo/pool/main/foo_0.0.1-1_amd64.deb" :> Link("/in/gone.deb")

\* the file lists a caller may pass: none, a file it has, a file it does not
\* have, and two builds of one package
FileLists ==
    {<<>>, <<"/in/foo.deb">>, <<"/in/missing.deb">>, <<"/in/foo.deb", "/in/foo2.deb">>}

\* the (component, architecture) pairs a caller may add packages to
IndexArgs == {<<"main", "amd64">>, <<"main", "i386">>, <<"BOGUS", "amd64">>}

ComponentArgs == {"main", "BOGUS"}

ArchitectureArgs == {"amd64", "i386", "BOGUS"}

\* the lists a caller may assign to architectures or components
ArchitectureLists == {<<"i386">>, <<"i386", "amd64">>}

ComponentLists == {<<"main">>, <<"main", "updates">>}

\* the number of packages the indexes of m hold
RECURSIVE CountPackages(_)
CountPackages(cs) ==
    IF cs = <<>> THEN 0 ELSE Len(Head(cs).packages) + CountPackages(Tail(cs))

NoSignOptions == {}

(***************************************************************************)
(* SpecMeta: one AptRepoMeta, held by an AptRepo at BasePath, under any    *)
(* sequence of calls.                                                      *)
(***************************************************************************)

TheMeta == [release |-> release, cabs |-> cabs, upstream_url |-> {}]

Call(op, args, out) == [op |-> op, args |-> args, out |-> out]

InitMeta ==
    /\ NoLibrary
    /\ \E comps \in ComponentLists :
          LET m == AptRepoMetaInit({}, {}, {}, {}, {}, {"stable"}, {comps}, {}, {})
          IN  release = m.release /\ cabs = m.cabs
    /\ fs \in {SrcFiles, StaleLink @@ SrcFiles}
    /\ result = Call("__init__", <<>>, Returned(<<>>))
    /\ sopts = NoSignOptions
    /\ spawned = <<>>
    /\ events = <<>>
    /\ parsed = {}
    /\ environ = <<>>

\* metadata.get_component_arch_binary(component, architecture)
MetaGet(component, architecture) ==
    LET got == get_component_arch_binary(TheMeta, component, architecture)
    IN  /\ release' = got.meta.release
        /\ cabs' = got.meta.cabs
        /\ result' = Call("get_component_arch_binary",
                          <<component, architecture>>, got.out)
        /\ UNCHANGED <<fs, sopts, spawned, events, parsed, environ>>
        /\ UNCHANGED library

\* repo.add_packages(filenames, component, architecture, with_symlinks)
MetaAddPackages(filenames, component, architecture, with_symlinks) ==
    /\ CountPackages(cabs) + Len(filenames) <= MaxPkgs
    /\ LET got == add_packages(TheMeta, fs, BasePath, filenames, component,
                               architecture, with_symlinks)
       IN  /\ release' = got.meta.release
           /\ cabs' = got.meta.cabs
           /\ fs' = got.fs
           /\ result' = Call("add_packages", <<component, architecture>>, got.out)
    /\ UNCHANGED <<sopts, spawned, events, parsed, environ>>
    /\ UNCHANGED library

\* metadata.architectures = values
MetaSetArchitectures(values) ==
    /\ release' = set_architectures(release, values)
    /\ result' = Call("architectures=", values, Returned(<<>>))
    /\ UNCHANGED <<cabs, fs, sopts, spawned, events, parsed, environ>>
    /\ UNCHANGED library

\* metadata.components = values: the setter is bound to the name
\* _set_components, so the components property has none
MetaSetComponents(values) ==
    /\ result' = Call("components=", values,
                      Raised("AttributeError", "can't set attribute"))
    /\ UNCHANGED <<release, cabs, fs, sopts, spawned, events, parsed, environ>>
    /\ UNCHANGED library

NextMeta ==
    \/ \E c \in ComponentArgs, a \in ArchitectureArgs : MetaGet(c, a)
    \/ \E fl \in FileLists, ca \in IndexArgs, sym \in BOOLEAN :
          MetaAddPackages(fl, ca[1], ca[2], sym)
    \/ \E values \in ArchitectureLists : MetaSetArchitectures(values)
    \/ \E values \in ComponentLists : MetaSetComponents(values)

SpecMeta == InitMeta /\ [][NextMeta]_vars

\* C2: after any sequence of get_component_arch_binary / add_packages calls and
\* assignments to architectures or components, every index the repository
\* holds is for a declared component and a declared architecture.
C2_IndexesAreDeclared ==
    \A i \in 1..Len(cabs) :
        /\ InSeq(cabs[i].release.component, components(release))
        /\ InSeq(cabs[i].release.architecture, architectures(release))

\* C3: get_component_arch_binary with an undeclared component raises
\* "Component <X> not supported (expected: <declared, joined by ', '>)", with
\* a declared component and an undeclared architecture raises
\* "Architecture <X> not defined (expected: <declared>)", and in both cases
\* leaves the indexes the repository holds as they were.
C3_UndeclaredIsRejected ==
    [][result'.op = "get_component_arch_binary" =>
        LET c == result'.args[1]
            a == result'.args[2]
        IN  /\ ~InSeq(c, components(release)) =>
                  /\ result'.out = Raised("ValueError",
                         "Component " \o c \o " not supported (expected: "
                             \o Join(components(release), ", ") \o ")")
                  /\ cabs' = cabs
            /\ InSeq(c, components(release)) /\ ~InSeq(a, architectures(release)) =>
                  /\ result'.out = Raised("ValueError",
                         "Architecture " \o a \o " not defined (expected: "
                             \o Join(architectures(release), ", ") \o ")")
                  /\ cabs' = cabs]_vars

(***************************************************************************)
(* SignOptions and Signer.  A SignOptions object is its __dict__: a        *)
(* function from attribute names to optional values ({} is None); a value  *)
(* is a string [s |-> ...] or an integer [n |-> ...].  _cmdargs is the     *)
(* list of the command's words.  A handle is the number of a temporary     *)
(* file.                                                                   *)
(***************************************************************************)

StrVal(s) == [s |-> s]
IntVal(n) == [n |-> n]

\* str(v)
Str(v) == IF "n" \in DOMAIN v THEN ToString(v.n) ELSE v.s

\* the value of an attribute that is set
ValueOf(d, k) == CHOOSE v \in d[k] : TRUE

\* a SignerError with its two output handles ({} when it carries none)
SignerError(msg, stdout, stderr) ==
    [ok |-> FALSE, exc |-> "SignerError", msg |-> msg, stdout |-> stdout,
     stderr |-> stderr]

\* a constructor that tests the permission before the kind of the file
SignOptionsInitAccessFirst(f, cmd, key_id, kwargs) ==
    IF cmd = {} \/ cmd = {""}
    THEN [out |-> SignerError("Command not specified", {}, {})]
    ELSE LET c == CHOOSE v \in cmd : TRUE
             cmdargs == ShlexSplit(c)
         IN  IF cmdargs = <<>>
             THEN [out |-> Raised("IndexError", "list index out of range")]
             ELSE IF ~IsExecutable(f, cmdargs[1])
             THEN [out |-> SignerError(
                               "Command " \o cmdargs[1] \o " is not executable", {}, {})]
             ELSE [out |-> Returned(<<>>),
                   obj |-> kwargs @@
                           [cmd |-> {StrVal(c)}, _cmdargs |-> {cmdargs},
                            key_id |-> key_id, repository_name |-> {},
                            dist |-> {}, extra |-> {}]]

\* SignOptions.__init__(cmd, key_id, **kwargs): the object or the error
SignOptionsInit(f, cmd, key_id, kwargs) ==
    IF cmd = {} \/ cmd = {""}
    THEN [out |-> SignerError("Command not specified", {}, {})]
    ELSE LET c == CHOOSE v \in cmd : TRUE
             cmdargs == ShlexSplit(c)
         IN  IF cmdargs = <<>>
             THEN [out |-> Raised("IndexError", "list index out of range")]
             ELSE IF ~IsFile(f, cmdargs[1])
             THEN [out |-> SignerError("Command " \o cmdargs[1] \o " is not a file",
                                       {}, {})]
             ELSE IF ~IsExecutable(f, cmdargs[1])
             THEN [out |-> SignerError(
                               "Command " \o cmdargs[1] \o " is not executable", {}, {})]
             ELSE [out |-> Returned(<<>>),
                   obj |-> kwargs @@
                           [cmd |-> {StrVal(c)}, _cmdargs |-> {cmdargs},
                            key_id |-> key_id, repository_name |-> {},
                            dist |-> {}, extra |-> {}]]

\* setattr(options, k, v)
SetAttr(d, k, v) == SetItem(d, k, v)

\* the name without the hyphens replaced
EnvNameKeepingHyphens(k) == "GPG_" \o Upper(k)

\* the name as_environment gives the entry of attribute k
EnvName(k) == "GPG_" \o Upper(Replace(k, "-", "_"))

\* the attributes as_environment makes entries of
EnvAttributes(d) == {k \in DOMAIN d : ~(StartsWith(k, "_") \/ d[k] = {})}

\* the mappings with the names in names, each name given the string form of
\* one of the attributes that have it
RECURSIVE EnvironmentsOver(_, _, _)
EnvironmentsOver(d, nameOf, names) ==
    IF names = {} THEN {<<>>}
    ELSE LET n == CHOOSE x \in names : TRUE
         IN  {(n :> Str(ValueOf(d, k))) @@ e :
                 k \in {a \in DOMAIN nameOf : nameOf[a] = n},
                 e \in EnvironmentsOver(d, nameOf, names \ {n})}

\* SignOptions.as_environment(): the mappings it can return.  The entries are
\* made in the order __dict__ lists the attributes, a later entry replacing an
\* earlier one of the same name; that order is not part of the object, so
\* when several attributes have one name any of them may give the value.
as_environment(d) ==
    LET nameOf == [k \in EnvAttributes(d) |-> EnvName(k)]
    IN  EnvironmentsOver(d, nameOf, {nameOf[k] : k \in DOMAIN nameOf})

\* the two temporary files Signer.sign opens for its n-th process
StdoutHandle(n) == 2 * n - 1
StderrHandle(n) == 2 * n

\* a sign that returns the handles whatever the exit code
SignerSignIgnoringExit(d, procs, path, ret, env) ==
    IF d = {} THEN [sopts |-> d, spawned |-> procs, out |-> Returned(<<>>)]
    ELSE LET o == CHOOSE x \in d : TRUE
             cmd == Append(ValueOf(o, "_cmdargs"), path)
             n == Len(procs) + 1
             proc == [argv |-> cmd, env |-> env, stdout |-> StdoutHandle(n),
                      stderr |-> StderrHandle(n), ret |-> ret]
         IN  [sopts |-> {SetItem(o, "_cmdargs", {cmd})},
              spawned |-> Append(procs, proc),
              out |-> Returned(<<proc.stdout, proc.stderr>>)]

\* Signer.sign(path) with the options object d, when the spawned process exits
\* with code ret and as_environment returns env: the options object and the
\* processes after the call, and the outcome
SignerSign(d, procs, path, ret, env) ==
    IF d = {} THEN [sopts |-> d, spawned |-> procs, out |-> Returned(<<>>)]
    ELSE LET o == CHOOSE x \in d : TRUE
             cmd == Append(ValueOf(o, "_cmdargs"), path)
             n == Len(procs) + 1
             proc == [argv |-> cmd, env |-> env, stdout |-> StdoutHandle(n),
                      stderr |-> StderrHandle(n), ret |-> ret]
         IN  [sopts |-> {SetItem(o, "_cmdargs", {cmd})},
              spawned |-> Append(procs, proc),
              out |-> IF ret # 0
                      THEN SignerError("Return code: " \o ToString(ret),
                                       {proc.stdout}, {proc.stderr})
                      ELSE Returned(<<proc.stdout, proc.stderr>>)]

(***************************************************************************)
(* Packages and Release files.  The bytes of a Packages file are           *)
(* [kind |-> "packages", paragraphs, size]: its paragraphs in order, each  *)
(* the <<key, value>> lines it has.  The bytes of a compressed file        *)
(* are [kind |-> "gz" or "bz2", of |-> the bytes compressed, size].  The   *)
(* bytes of a Release file are [kind |-> "release", fields, size], a       *)
(* checksum field holding its lines <<digest, size, name>>.                *)
(***************************************************************************)

\* AptRepoMeta._Hash_Algorithms: algorithm |-> <<key_name, outer_name>>
_Hash_Algorithms ==
    [sha1 |-> <<"sha1", "sha1">>, md5 |-> <<"md5sum", "md5sum">>,
     sha256 |-> <<"sha256", "sha256">>]

\* the order _Hash_Algorithms.items() lists the algorithms in
HashAlgorithmNames == <<"sha1", "md5", "sha256">>

\* the bytes hash_file reads from a file
FileBytes(data) == IF "bytes" \in DOMAIN data THEN data.bytes ELSE data

\* hash_file(path, [alg])[alg]
hash_file(f, path, alg) == HexDigest(alg, FileBytes(ReadFile(f, path)))

\* the order the fields of a package stanza are written in
FieldOrder ==
    <<"package", "version", "architecture", "filename", "size", "md5sum",
      "sha1", "sha256">>

\* Deb822.dump of one paragraph: its <<key, value>> lines
DumpParagraph(st) ==
    LET keys == SelectSeq(FieldOrder, LAMBDA k : k \in DOMAIN st)
    IN  [i \in 1..Len(keys) |-> <<keys[i], st[keys[i]]>>]

\* the mapping deb822 reads from the lines of one paragraph
ParseParagraph(lines) ==
    [k \in {lines[i][1] : i \in 1..Len(lines)} |->
        lines[CHOOSE i \in 1..Len(lines) : lines[i][1] = k][2]]

\* the number of lines of a Packages file, a blank line between paragraphs
RECURSIVE TextSize(_)
TextSize(paragraphs) ==
    IF paragraphs = <<>> THEN 0
    ELSE Len(Head(paragraphs))
         + (IF Tail(paragraphs) = <<>> THEN 0 ELSE 1) + TextSize(Tail(paragraphs))

\* the bytes of the Packages file holding the stanzas
PackagesFile(stanzas) ==
    LET paragraphs == [i \in 1..Len(stanzas) |-> DumpParagraph(stanzas[i])]
    IN  [kind |-> "packages", paragraphs |-> paragraphs,
         size |-> TextSize(paragraphs)]

\* gzip.open(..., 'wb') / bz2.BZ2File(..., 'wb') of the bytes data
Compressed(kind, data) == [kind |-> kind, of |-> data, size |-> data.size + 1]

\* deb822.Packages.iter_paragraphs, for the bytes of a plain Packages file
iter_paragraphs(data) ==
    [i \in 1..Len(data.paragraphs) |-> ParseParagraph(data.paragraphs[i])]

\* the multivalued fields of a Release document
ChecksumFields == {"sha1", "md5sum", "sha256"}

\* Release.dump: a checksum field is written as its lines
ReleaseFile(rel) ==
    [kind |-> "release",
     fields |-> [k \in DOMAIN rel |->
                    IF k \in ChecksumFields
                    THEN [i \in 1..Len(rel[k]) |->
                             <<rel[k][i][k], rel[k][i].size, rel[k][i].name>>]
                    ELSE rel[k]],
     size |-> Cardinality(DOMAIN rel)]

\* deb822.Release(open(path)): a checksum field is read as its entries
LoadRelease(data) ==
    [k \in DOMAIN data.fields |->
        IF k \in ChecksumFields
        THEN [i \in 1..Len(data.fields[k]) |->
                 (k :> data.fields[k][i][1]) @@
                 [size |-> data.fields[k][i][2], name |-> data.fields[k][i][3]]]
        ELSE data.fields[k]]

\* one step a call takes that others can see: a file written, a command
\* spawned on a path, a url downloaded to a path, a file loaded into an index
Event(ev, path, url) == [ev |-> ev, path |-> path, url |-> url]

\* ComponentArchBinary.relative_path
relative_path(obj, fname) ==
    PathJoinAll(<<"dists", obj.dist, obj.release.component,
                  "binary-" \o obj.release.architecture, fname>>)

\* AptRepoMeta.release_path
release_path(rel, base_path) ==
    PathJoinAll(<<base_path, "dists", rel["codename"], "Release">>)

\* AptRepoMeta.Write_Packages, open() failing on the paths in fail: the file
\* system after the call, the files written, the outcome and the checksums
Write_Packages(f, base_path, relative_path_fname, packages, fail) ==
    LET short_names == <<relative_path_fname, relative_path_fname \o ".gz",
                         relative_path_fname \o ".bz2">>
        pkg_files == [i \in 1..3 |-> PathJoin(base_path, short_names[i])]
        wrote(n) == [i \in 1..n |-> Event("write", pkg_files[i], "")]
        failed(ff, n) ==
            [fs |-> ff, events |-> wrote(n),
             out |-> Raised("IOError", pkg_files[n + 1]), checksums |-> <<>>]
        info(ff, i, alg) ==
            (_Hash_Algorithms[alg][1] :> hash_file(ff, pkg_files[i], alg)) @@
            [name |-> short_names[i], size |-> StatSize(ff, pkg_files[i])]
        algOf(outer) ==
            CHOOSE alg \in DOMAIN _Hash_Algorithms :
                _Hash_Algorithms[alg][2] = outer
        \* the checksums of the three files written
        hashed(f3) ==
            [fs |-> f3, events |-> wrote(3), out |-> Returned(<<>>),
             checksums |->
                 [outer \in {_Hash_Algorithms[alg][2] :
                                alg \in DOMAIN _Hash_Algorithms} |->
                     [i \in 1..3 |-> info(f3, i, algOf(outer))]]]
        \* the plain file copied to the .bz2 file
        bzipped(f2) ==
            IF pkg_files[3] \in fail THEN failed(f2, 2)
            ELSE hashed(WriteFile(f2, pkg_files[3],
                                  Compressed("bz2", ReadFile(f2, pkg_files[1]))))
        \* the plain file copied to the .gz file
        gzipped(f1) ==
            IF pkg_files[2] \in fail THEN failed(f1, 1)
            ELSE bzipped(WriteFile(f1, pkg_files[2],
                                   Compressed("gz", ReadFile(f1, pkg_files[1]))))
    IN  IF pkg_files[1] \in fail THEN failed(f, 0)
        ELSE IF pkg_files[1] \in DOMAIN f /\ f[pkg_files[1]].type = "dir"
        THEN [fs |-> f, events |-> <<>>,
              out |-> Raised("IsADirectoryError", pkg_files[1]), checksums |-> <<>>]
        ELSE gzipped(WriteFile(f, pkg_files[1],
                               PackagesFile([i \in 1..Len(packages) |->
                                                package(packages[i])])))

\* ComponentArchBinary.write_Packages
write_Packages(obj, f, base_path, fail) ==
    Write_Packages(f, base_path, relative_path(obj, "Packages"), obj.packages, fail)

\* the pairs of an element of xs and an element of ys, in the order of two
\* nested loops
Product(xs, ys) ==
    [i \in 1..(Len(xs) * Len(ys)) |->
        <<xs[((i - 1) \div Len(ys)) + 1], ys[((i - 1) % Len(ys)) + 1]>>]

\* all_checksums.setdefault(k, []).extend(vlist) for every k of checksums
ExtendAll(all_checksums, checksums) ==
    [k \in DOMAIN all_checksums \cup DOMAIN checksums |->
        GetItem(all_checksums, k, <<>>) \o GetItem(checksums, k, <<>>)]

\* AptRepoMeta.write_release
write_release(m, f, base_path, fail) ==
    LET rel == set_date(PopItem(m.release, "date"))
        path == release_path(rel, base_path)
        m1 == [m EXCEPT !.release = rel]
    IN  IF path \in fail
        THEN [meta |-> m1, fs |-> f, events |-> <<>>,
              out |-> Raised("IOError", path)]
        ELSE [meta |-> m1, fs |-> WriteFile(f, path, ReleaseFile(rel)),
              events |-> <<Event("write", path, "")>>, out |-> Returned(<<>>)]

\* the loop of AptRepoMeta.create over iter_component_arch_binaries()
RECURSIVE create_loop(_, _, _, _, _, _, _)
create_loop(m, f, base_path, pairs, all_checksums, evs, fail) ==
    LET \* after obj.write_Packages(base_path) of the index got
        written(gm, w) ==
            IF ~w.out.ok
            THEN [meta |-> gm, fs |-> w.fs, events |-> evs \o w.events,
                  out |-> w.out, checksums |-> all_checksums]
            ELSE create_loop(gm, w.fs, base_path, Tail(pairs),
                             ExtendAll(all_checksums, w.checksums),
                             evs \o w.events, fail)
        \* after the generator yields the next index
        yielded(got) ==
            IF ~got.out.ok
            THEN [meta |-> m, fs |-> f, events |-> evs, out |-> got.out,
                  checksums |-> all_checksums]
            ELSE written(got.meta,
                         write_Packages(got.meta.cabs[got.out.ret[1]], f,
                                        base_path, fail))
    IN  IF pairs = <<>>
        THEN [meta |-> m, fs |-> f, events |-> evs, out |-> Returned(<<>>),
              checksums |-> all_checksums]
        ELSE yielded(get_component_arch_binary(m, Head(pairs)[1], Head(pairs)[2]))

\* a create that writes the Release file whether or not the loop failed
AptRepoMeta_create_despite_errors(m, f, base_path, fail) ==
    LET l == create_loop(m, f, base_path,
                         Product(components(m.release), architectures(m.release)),
                         <<>>, <<>>, fail)
        wr == write_release([l.meta EXCEPT !.release = l.checksums @@ @],
                            l.fs, base_path, fail)
    IN  [meta |-> wr.meta, fs |-> wr.fs, events |-> l.events \o wr.events,
         out |-> wr.out]

\* AptRepoMeta.create
AptRepoMeta_create(m, f, base_path, fail) ==
    LET \* after self.write_release(base_path)
        released(evs, wr) ==
            [meta |-> wr.meta, fs |-> wr.fs, events |-> evs \o wr.events,
             out |-> wr.out]
        \* after the loop
        looped(l) ==
            IF ~l.out.ok
            THEN [meta |-> l.meta, fs |-> l.fs, events |-> l.events, out |-> l.out]
            ELSE released(l.events,
                          write_release([l.meta EXCEPT !.release = l.checksums @@ @],
                                        l.fs, base_path, fail))
    IN  looped(create_loop(m, f, base_path,
                           Product(components(m.release), architectures(m.release)),
                           <<>>, <<>>, fail))

\* AptRepo.repo_name
repo_name(m) == codename(m.release)

\* the sign options as AptRepo.sign hands them to the Signer
AptRepoSignOptions(m, d) ==
    IF d = {} THEN d
    ELSE {SetAttr(CHOOSE o \in d : TRUE, "repository_name",
                  {StrVal(repo_name(m))})}

\* the mappings as_environment can return for the optional object d
SignEnvironments(d) ==
    IF d = {} THEN {<<>>} ELSE as_environment(CHOOSE o \in d : TRUE)

\* AptRepo.sign(release_file)
AptRepo_sign(m, d, procs, release_file, ret, env) ==
    IF d = {} THEN [sopts |-> d, spawned |-> procs, out |-> Returned(<<>>)]
    ELSE SignerSign(AptRepoSignOptions(m, d), procs, release_file, ret, env)

\* AptRepo.create(files, with_symlinks, component, architecture)
AptRepo_create(m, f, d, procs, base_path, files, with_symlinks, component, architecture, fail, ret, env) ==
    LET \* after self.sign(...)
        signed(made, path, sg) ==
            [meta |-> made.meta, fs |-> made.fs, sopts |-> sg.sopts,
             spawned |-> sg.spawned,
             events |-> made.events \o
                        [i \in 1..(Len(sg.spawned) - Len(procs)) |->
                            Event("spawn", path, "")],
             out |-> IF sg.out.ok THEN Returned(<<>>) ELSE sg.out]
        \* after self.metadata.create(self.base_path)
        created(made) ==
            IF ~made.out.ok
            THEN [meta |-> made.meta, fs |-> made.fs, sopts |-> d,
                  spawned |-> procs, events |-> made.events, out |-> made.out]
            ELSE signed(made, release_path(made.meta.release, base_path),
                        AptRepo_sign(made.meta, d, procs,
                                     release_path(made.meta.release, base_path),
                                     ret, env))
        \* after self.add_packages(...)
        added(ad) ==
            IF ~ad.out.ok
            THEN [meta |-> ad.meta, fs |-> ad.fs, sopts |-> d, spawned |-> procs,
                  events |-> <<>>, out |-> ad.out]
            ELSE created(AptRepoMeta_create(ad.meta, ad.fs, base_path, fail))
    IN  IF files # <<>>
        THEN added(add_packages(m, f, base_path, files,
                                OrElse(component, components(m.release)[1]),
                                OrElse(architecture, architectures(m.release)[1]),
                                with_symlinks))
        ELSE added([meta |-> m, fs |-> f, out |-> Returned(<<>>)])

(***************************************************************************)
(* SpecSign: one SignOptions object and the Signer built on it, under any  *)
(* sequence of calls.                                                      *)
(***************************************************************************)

\* the most processes one run spawns
MaxSpawns == 2

\* the signing command, a file that is not executable, and a directory
SignFiles ==
    ("/bin/sign" :> File([exec |-> TRUE])) @@
    ("/bin/noexec" :> File([exec |-> FALSE])) @@
    ("/tmp" :> Dir)

CmdArgs ==
    {{}, {""}, {" "}, {"/bin/sign"}, {"/bin/sign -e \"a b\""}, {"/tmp"},
     {"/bin/noexec"}, {"/nowhere -x"}}

KeyIdArgs == {{}, {StrVal("8675309")}}

KwArgs ==
    {<<>>, [repository_name |-> {StrVal("My repo")}], ("key-id" :> {IntVal(7)})}

SignPaths == {"/repo/dists/stable/Release"}

ExitCodes == {0, 2}

InitSign ==
    /\ NoLibrary
    /\ fs = SignFiles
    /\ sopts = NoSignOptions
    /\ spawned = <<>>
    /\ result = Call("__init__", <<>>, Returned(<<>>))
    /\ environ = <<>>
    /\ release = <<>>
    /\ cabs = <<>>
    /\ events = <<>>
    /\ parsed = {}

\* options = SignOptions(cmd=cmd, key_id=key_id, **kwargs)
SignNew(cmd, key_id, kwargs) ==
    /\ sopts = {}
    /\ LET new == SignOptionsInit(fs, cmd, key_id, kwargs)
       IN  /\ sopts' = IF new.out.ok THEN {new.obj} ELSE sopts
           /\ result' = Call("SignOptions", <<OrElse(cmd, "")>>, new.out)
    /\ environ' = <<>>
    /\ UNCHANGED <<release, cabs, fs, spawned, events, parsed>>
    /\ UNCHANGED library

\* options.<k> = v
SignSetAttr(k, v) ==
    /\ sopts # {}
    /\ sopts' = {SetAttr(CHOOSE o \in sopts : TRUE, k, v)}
    /\ result' = Call("setattr", <<k>>, Returned(<<>>))
    /\ environ' = <<>>
    /\ UNCHANGED <<release, cabs, fs, spawned, events, parsed>>
    /\ UNCHANGED library

\* options.as_environment()
SignAsEnvironment ==
    /\ sopts # {}
    /\ environ' \in as_environment(CHOOSE o \in sopts : TRUE)
    /\ result' = Call("as_environment", <<>>, Returned(<<>>))
    /\ UNCHANGED <<release, cabs, fs, sopts, spawned, events, parsed>>
    /\ UNCHANGED library

\* Signer(options=options).sign(path), the process exiting with code ret
SignSign(path, ret) ==
    /\ Len(spawned) < MaxSpawns
    /\ \E env \in IF sopts = {} THEN {<<>>}
                  ELSE as_environment(CHOOSE o \in sopts : TRUE) :
          LET done == SignerSign(sopts, spawned, path, ret, env)
          IN  /\ sopts' = done.sopts
              /\ spawned' = done.spawned
              /\ result' = Call("Signer.sign", <<path>>, done.out)
    /\ environ' = <<>>
    /\ UNCHANGED <<release, cabs, fs, events, parsed>>
    /\ UNCHANGED library

NextSign ==
    \/ \E cmd \in CmdArgs, key_id \in KeyIdArgs, kwargs \in KwArgs :
          SignNew(cmd, key_id, kwargs)
    \/ \E v \in {{}, {StrVal("foo")}} : SignSetAttr("extra", v)
    \/ SignAsEnvironment
    \/ \E path \in SignPaths, ret \in ExitCodes : SignSign(path, ret)

SpecSign == InitSign /\ [][NextSign]_vars

(***************************************************************************)
(* Parsing a repository.  A download request is [url, destination, data].  *)
(* The temporary files of one parse are named by their position in it.     *)
(***************************************************************************)

\* tempfile.NamedTemporaryFile(delete=False, suffix=suffix).name, for the
\* n-th temporary file of a call
TempName(n, suffix) == "/tmp/tmp" \o ToString(n) \o suffix

\* utils.download(requests): urlretrieve of each url in turn, the first url
\* that cannot be opened ending the call
RECURSIVE download(_, _)
download(f, requests) ==
    IF requests = <<>> THEN [fs |-> f, events |-> <<>>, out |-> Returned(<<>>)]
    ELSE LET req == Head(requests)
         IN  IF ~PathExists(f, req.url)
             THEN [fs |-> f, events |-> <<>>, out |-> Raised("URLError", req.url)]
             ELSE LET rest == download(WriteFile(f, req.destination,
                                                 ReadFile(f, req.url)),
                                       Tail(requests))
                  IN  [fs |-> rest.fs,
                       events |-> <<Event("download", req.destination, req.url)>>
                                  \o rest.events,
                       out |-> rest.out]

\* AptRepo.parse_release(base_path, path, codename=cn): the meta object of the
\* repository it returns ({} when it raises)
parse_release(f, base_path, path, cn) ==
    LET path1 == IF ~EndsWith(path, "Release")
                 THEN IF cn # {} /\ ~Contains(path, CHOOSE c \in cn : TRUE)
                      THEN PathJoinAll(<<path, "dists", CHOOSE c \in cn : TRUE>>)
                      ELSE path
                 ELSE Dirname(path)
        release_file == PathJoin(path1, "Release")
        dest == TempName(0, "")
        dl == download(f, <<[url |-> release_file, destination |-> dest,
                             data |-> <<>>]>>)
    IN  IF ~dl.out.ok
        THEN [fs |-> dl.fs, events |-> dl.events, out |-> dl.out, meta |-> {}]
        ELSE [fs |-> dl.fs, events |-> dl.events, out |-> Returned(<<>>),
              meta |-> {AptRepoMetaInit({LoadRelease(ReadFile(dl.fs, dest))},
                                        {}, {}, {}, {}, {}, {}, {}, {path1})}]

\* the entries of a checksum table whose name is in directory dirname
RECURSIVE EntriesIn(_, _)
EntriesIn(table, dirname) ==
    IF table = <<>> THEN <<>>
    ELSE (IF Dirname(Head(table).name) = dirname THEN <<Head(table)>> ELSE <<>>)
         \o EntriesIn(Tail(table), dirname)

\* the loops of component_arch_binary_package_files_from_release over the
\* digests and the declared pairs: ret lists [component, architecture, flist]
\* in the order the pairs were found
RECURSIVE from_release_loop(_, _, _)
from_release_loop(m, todo, ret) ==
    IF todo = <<>> THEN ret
    ELSE LET digest_name == Head(todo)[1]
             comp == Head(todo)[2][1]
             arch == Head(todo)[2][2]
             path == PathJoin(comp, "binary-" \o arch)
             flist == IF digest_name \in DOMAIN m.release
                      THEN EntriesIn(m.release[digest_name], path) ELSE <<>>
             known == \E i \in 1..Len(ret) :
                         ret[i].component = comp /\ ret[i].architecture = arch
         IN  from_release_loop(
                 m, Tail(todo),
                 IF known \/ flist = <<>> THEN ret
                 ELSE Append(ret, [component |-> comp, architecture |-> arch,
                                   flist |-> flist]))

\* AptRepoMeta.component_arch_binary_package_files_from_release
component_arch_binary_package_files_from_release(m) ==
    from_release_loop(
        m,
        Product(<<"sha256", "sha1", "md5">>,
                Product(components(m.release), architectures(m.release))),
        <<>>)

\* the first loop of parse_component_arch_binary_package_files: the meta
\* object with the indexes it gets, and the download requests
RECURSIVE request_loop(_, _, _)
request_loop(m, todo, requests) ==
    IF todo = <<>> THEN [meta |-> m, requests |-> requests, out |-> Returned(<<>>)]
    ELSE LET fobj == Head(todo).flist[1]
             got == get_component_arch_binary(m, Head(todo).component,
                                              Head(todo).architecture)
             fname == fobj.name
         IN  IF ~got.out.ok
             THEN [meta |-> m, requests |-> requests, out |-> got.out]
             ELSE request_loop(
                      got.meta, Tail(todo),
                      Append(requests,
                             [url |-> PathJoin(CHOOSE u \in m.upstream_url : TRUE,
                                               fname),
                              destination |-> TempName(Len(requests) + 1,
                                                       "-" \o Basename(fname)),
                              data |-> [component |-> Head(todo).component,
                                        architecture |-> Head(todo).architecture]
                                       @@ fobj]))

\* the algorithms of _Hash_Algorithms, from the n-th on, whose key the
\* download's data carries
RECURSIVE CarriedAlgorithms(_, _)
CarriedAlgorithms(data, n) ==
    IF n > Len(HashAlgorithmNames) THEN <<>>
    ELSE (IF _Hash_Algorithms[HashAlgorithmNames[n]][1] \in DOMAIN data
          THEN <<HashAlgorithmNames[n]>> ELSE <<>>)
         \o CarriedAlgorithms(data, n + 1)

\* the test that lets every download through
checksum_unchecked(f, dl, alg) == TRUE

\* digests[alg_name] == dl.data[key_name], the negation of the test that
\* raises "Checksum did not match"
checksum_matches(f, dl, alg) ==
    hash_file(f, dl.destination, alg) = dl.data[_Hash_Algorithms[alg][1]]

\* the loop of parse_component_arch_binary_package_files that validates the
\* downloads and loads them
RECURSIVE validate_loop(_, _, _, _)
validate_loop(m, f, requests, evs) ==
    IF requests = <<>> THEN [meta |-> m, events |-> evs, out |-> Returned(<<>>)]
    ELSE LET dl == Head(requests)
             carried == CarriedAlgorithms(dl.data, 1)
         IN  IF carried = <<>>
             THEN [meta |-> m, events |-> evs, out |-> Raised("KeyError", "sha256")]
             ELSE IF ~checksum_matches(f, dl, carried[1])
             THEN [meta |-> m, events |-> evs,
                   out |-> Raised("Exception", "Checksum did not match")]
             ELSE LET got == get_component_arch_binary(m, dl.data.component,
                                                       dl.data.architecture)
                  IN  IF ~got.out.ok
                      THEN [meta |-> m, events |-> evs, out |-> got.out]
                      ELSE validate_loop(
                               [got.meta EXCEPT !.cabs[got.out.ret[1]].packages =
                                   iter_paragraphs(ReadFile(f, dl.destination))],
                               f, Tail(requests),
                               Append(evs, Event("load", dl.destination, "")))

\* AptRepo.parse_component_arch_binary_package_files(meta)
parse_component_arch_binary_package_files(m, f) ==
    LET asked == request_loop(
                     m, component_arch_binary_package_files_from_release(m), <<>>)
        dl == download(f, asked.requests)
    IN  IF ~asked.out.ok
        THEN [meta |-> asked.meta, fs |-> f, events |-> <<>>, out |-> asked.out]
        ELSE IF ~dl.out.ok
        THEN [meta |-> asked.meta, fs |-> dl.fs, events |-> dl.events,
              out |-> dl.out]
        ELSE LET checked == validate_loop(asked.meta, dl.fs, asked.requests, <<>>)
             IN  [meta |-> checked.meta, fs |-> dl.fs,
                  events |-> dl.events \o checked.events, out |-> checked.out]

\* AptRepo.parse(base_path, path, codename=cn): parsed is the meta object of
\* the repository the call returns
AptRepo_parse(f, base_path, path, cn) ==
    LET repoobj == parse_release(f, base_path, path, cn)
    IN  IF ~repoobj.out.ok
        THEN [fs |-> repoobj.fs, events |-> repoobj.events, out |-> repoobj.out,
              parsed |-> {}]
        ELSE LET done == parse_component_arch_binary_package_files(
                             CHOOSE m \in repoobj.meta : TRUE, repoobj.fs)
             IN  [fs |-> done.fs, events |-> repoobj.events \o done.events,
                  out |-> done.out,
                  parsed |-> IF done.out.ok THEN {done.meta} ELSE {}]

(***************************************************************************)
(* SpecRepo: one AptRepo at BasePath with components [main] and the        *)
(* default architectures, with or without sign options, and the upstream   *)
(* repositories it can parse, under any sequence of calls.                 *)
(***************************************************************************)

\* the stanza of the package an upstream index of architecture arch holds
UpStanza(arch) ==
    [package |-> "up", version |-> "1.0", architecture |-> arch,
     filename |-> "pool/main/up_1.0_" \o arch \o ".deb", size |-> "5",
     sha256 |-> HexDigest("sha256", arch)]

\* the bytes of an upstream index of architecture arch
UpPackages(arch) == PackagesFile(<<UpStanza(arch)>>)

\* the entry of the checksum table key for the file name holding data
UpEntry(key, name, data) ==
    (key :> HexDigest(CHOOSE alg \in DOMAIN _Hash_Algorithms :
                          _Hash_Algorithms[alg][1] = key, data)) @@
    [name |-> name, size |-> ToString(data.size)]

\* the bytes of an upstream Release file with the checksum tables given
UpRelease(tables) ==
    ReleaseFile(tables @@
                [origin |-> "up", label |-> "up", suite |-> "stable",
                 codename |-> "stable", components |-> "main",
                 architectures |-> "amd64 i386", description |-> "up",
                 version |-> "1.0", date |-> "<then>"])

\* the SHA256 table of both indexes
UpSha256 ==
    [sha256 |-> <<UpEntry("sha256", "main/binary-amd64/Packages", UpPackages("amd64")),
                  UpEntry("sha256", "main/binary-i386/Packages", UpPackages("i386"))>>]

\* the upstream repositories: /up is sound; the i386 index of /bad does not
\* hold the bytes its Release advertises; the i386 index of /gone is
\* missing; the Release of /mixed lists the amd64 index under SHA256 and,
\* with another digest, under SHA1, and the i386 index under SHA1 only; the
\* Release of /zip lists the amd64 index and, after it, its gzip form
UpstreamFiles ==
    ("/zip/dists/stable/Release" :>
        File(UpRelease(
            [sha256 |-> <<UpEntry("sha256", "main/binary-amd64/Packages",
                                  UpPackages("amd64")),
                          UpEntry("sha256", "main/binary-amd64/Packages.gz",
                                  Compressed("gz", UpPackages("amd64")))>>]))) @@
    ("/zip/dists/stable/main/binary-amd64/Packages" :> File(UpPackages("amd64"))) @@
    ("/zip/dists/stable/main/binary-amd64/Packages.gz" :>
        File(Compressed("gz", UpPackages("amd64")))) @@
    ("/up/dists/stable/Release" :> File(UpRelease(UpSha256))) @@
    ("/up/dists/stable/main/binary-amd64/Packages" :> File(UpPackages("amd64"))) @@
    ("/up/dists/stable/main/binary-i386/Packages" :> File(UpPackages("i386"))) @@
    ("/bad/dists/stable/Release" :> File(UpRelease(UpSha256))) @@
    ("/bad/dists/stable/main/binary-amd64/Packages" :> File(UpPackages("amd64"))) @@
    ("/bad/dists/stable/main/binary-i386/Packages" :> File(UpPackages("evil"))) @@
    ("/gone/dists/stable/Release" :> File(UpRelease(UpSha256))) @@
    ("/gone/dists/stable/main/binary-amd64/Packages" :> File(UpPackages("amd64"))) @@
    ("/mixed/dists/stable/Release" :>
        File(UpRelease(
            [sha256 |-> <<UpEntry("sha256", "main/binary-amd64/Packages",
                                  UpPackages("amd64"))>>,
             sha1 |-> <<UpEntry("sha1", "main/binary-amd64/Packages",
                                UpPackages("stale")),
                        UpEntry("sha1", "main/binary-i386/Packages",
                                UpPackages("i386"))>>]))) @@
    ("/mixed/dists/stable/main/binary-amd64/Packages" :> File(UpPackages("amd64"))) @@
    ("/mixed/dists/stable/main/binary-i386/Packages" :> File(UpPackages("i386")))

\* the (path, codename) arguments a caller may parse with; "" is no codename
ParseArgs ==
    {<<BasePath, "stable">>, <<"/up", "stable">>, <<"/bad", "stable">>,
     <<"/gone", "stable">>, <<"/mixed/dists/stable/Release", "">>,
     <<"/zip", "stable">>}

\* the most package files one run creates the repository with
MaxRepoPkgs == 1

\* the most signing commands one run of the repository spawns
MaxRepoSpawns == 1

\* the file lists a caller may create the repository with
RepoFileLists == {<<>>, <<"/in/foo.deb">>}

\* the sets of paths open() may fail on during one create
FailSets ==
    {{}, {"/repo/dists/stable/main/binary-i386/Packages.gz"},
     {"/repo/dists/stable/Release"}}

\* the sign options a repository may be given
RepoSignOptions ==
    {NoSignOptions,
     {SignOptionsInit(SignFiles, {"/bin/sign"}, {StrVal("8675309")}, <<>>).obj}}

InitRepo ==
    /\ NoLibrary
    /\ LET m == AptRepoMetaInit({}, {}, {}, {}, {}, {"stable"}, {<<"main">>}, {}, {})
       IN  release = m.release /\ cabs = m.cabs
    /\ fs = SrcFiles @@ SignFiles @@ UpstreamFiles
    /\ result = Call("__init__", <<>>, Returned(<<>>))
    /\ sopts \in RepoSignOptions
    /\ spawned = <<>>
    /\ events = <<>>
    /\ parsed = {}
    /\ environ = <<>>

\* repo.create(files, with_symlinks), open() failing on the paths in fail and
\* the signing command exiting with code ret
RepoCreate(files, with_symlinks, fail, ret) ==
    /\ CountPackages(cabs) + Len(files) <= MaxRepoPkgs
    /\ sopts = {} \/ Len(spawned) < MaxRepoSpawns
    /\ \E env \in SignEnvironments(AptRepoSignOptions(TheMeta, sopts)) :
          \E done \in {AptRepo_create(TheMeta, fs, sopts, spawned, BasePath, files,
                                      with_symlinks, {}, {}, fail, ret, env)} :
              /\ release' = done.meta.release
              /\ cabs' = done.meta.cabs
              /\ fs' = done.fs
              /\ sopts' = done.sopts
              /\ spawned' = done.spawned
              /\ events' = done.events
              /\ result' = Call("create", files, done.out)
    /\ parsed' = {}
    /\ environ' = <<>>
    /\ UNCHANGED library

\* repo.sign(path), the signing command exiting with code ret
RepoSign(path, ret) ==
    /\ sopts = {} \/ Len(spawned) < MaxRepoSpawns
    /\ \E env \in SignEnvironments(AptRepoSignOptions(TheMeta, sopts)) :
          \E done \in {AptRepo_sign(TheMeta, sopts, spawned, path, ret, env)} :
              /\ sopts' = done.sopts
              /\ spawned' = done.spawned
              /\ events' = [i \in 1..(Len(done.spawned) - Len(spawned)) |->
                               Event("spawn", path, "")]
              /\ result' = Call("AptRepo.sign", <<path>>, done.out)
    /\ parsed' = {}
    /\ environ' = <<>>
    /\ UNCHANGED <<release, cabs, fs>>
    /\ UNCHANGED library

\* AptRepo.parse(BasePath, path, codename)
RepoParse(path, cn) ==
    \E done \in {AptRepo_parse(fs, BasePath, path, IF cn = "" THEN {} ELSE {cn})} :
        /\ fs' = done.fs
        /\ events' = done.events
        /\ parsed' = done.parsed
        /\ result' = Call("parse", <<path, cn>>, done.out)
        /\ environ' = <<>>
        /\ UNCHANGED <<release, cabs, sopts, spawned>>
        /\ UNCHANGED library

NextRepo ==
    \/ \E files \in RepoFileLists, fail \in FailSets, ret \in ExitCodes :
          RepoCreate(files, FALSE, fail, ret)
    \/ \E ret \in ExitCodes : RepoSign(release_path(release, BasePath), ret)
    \/ \E ret \in ExitCodes :
          /\ sopts # {}
          /\ Len(spawned) < MaxRepoSpawns
          /\ SignSign(release_path(release, BasePath), ret)
    \/ \E pa \in ParseArgs : RepoParse(pa[1], pa[2])

SpecRepo == InitRepo /\ [][NextRepo]_vars

(***************************************************************************)
(* hasher.Hasher.  A hashlib object is the data it has been fed; the       *)
(* Hasher object is the record [algorithms, hashers, _digests], _digests   *)
(* being {} for None and {d} for the memoized dictionary d.                *)
(***************************************************************************)

\* Hasher._available_algorithms(): hashlib.algorithms_guaranteed
_available_algorithms == {"md5", "sha1", "sha256"}

\* Hasher.reset()
Hasher_reset(h) ==
    [h EXCEPT !.hashers = [x \in _available_algorithms \cap h.algorithms |-> ""],
              !._digests = {}]

\* Hasher(algorithms): a string is one algorithm, none is all of them
HasherInit(algorithms) ==
    Hasher_reset([algorithms |-> IF algorithms = {} THEN _available_algorithms
                                 ELSE algorithms,
                  hashers |-> <<>>, _digests |-> {}])

\* an update that leaves the memoized digests alone
Hasher_update_keeping_digests(h, data) ==
    IF data = "" THEN h
    ELSE [h EXCEPT !.hashers = [x \in DOMAIN h.hashers |-> h.hashers[x] \o data]]

\* Hasher.update(data)
Hasher_update(h, data) ==
    IF data = "" THEN h
    ELSE [h EXCEPT !._digests = {},
                   !.hashers = [x \in DOMAIN h.hashers |-> h.hashers[x] \o data]]

\* Hasher.digests: the object after the read and the dictionary returned
Hasher_digests(h) ==
    LET d == IF h._digests = {}
             THEN {[x \in DOMAIN h.hashers |-> HexDigest(x, h.hashers[x])]}
             ELSE h._digests
    IN  [h |-> [h EXCEPT !._digests = d], ret |-> CHOOSE r \in d : TRUE]

\* the most bytes a Hasher is fed between two resets
MaxFed == 3

\* the algorithms arguments of Hasher
AlgorithmArgs == {{}, {"md5"}, {"md5", "sha1"}, {"sha256", "crc32"}}

\* the arguments of update
UpdateArgs == {"", "a", "b"}

InitHasher ==
    /\ \E algorithms \in AlgorithmArgs : hasher = {HasherInit(algorithms)}
    /\ fed = ""
    /\ result = Call("Hasher", <<>>, Returned(<<>>))
    /\ opener = {} /\ fnames = <<>> /\ debs = <<>>
    /\ NoObjects
    /\ release = <<>> /\ cabs = <<>> /\ fs = <<>> /\ sopts = {}
    /\ spawned = <<>> /\ events = <<>> /\ parsed = {} /\ environ = <<>>

\* ho = Hasher(algorithms)
HasherNew(algorithms) ==
    /\ hasher' = {HasherInit(algorithms)}
    /\ fed' = ""
    /\ result' = Call("Hasher", <<>>, Returned(<<>>))
    /\ UNCHANGED <<opener, fnames, debs, heap, insts, writer, pc>>
    /\ UNCHANGED repository

\* ho.reset()
HasherReset ==
    /\ hasher' = {Hasher_reset(CHOOSE h \in hasher : TRUE)}
    /\ fed' = ""
    /\ result' = Call("reset", <<>>, Returned(<<>>))
    /\ UNCHANGED <<opener, fnames, debs, heap, insts, writer, pc>>
    /\ UNCHANGED repository

\* ho.update(data)
HasherUpdate(data) ==
    /\ Len(fed) + Len(data) <= MaxFed
    /\ hasher' = {Hasher_update(CHOOSE h \in hasher : TRUE, data)}
    /\ fed' = fed \o data
    /\ result' = Call("update", <<data>>, Returned(<<>>))
    /\ UNCHANGED <<opener, fnames, debs, heap, insts, writer, pc>>
    /\ UNCHANGED repository

\* ho.digests
HasherDigests ==
    /\ LET read == Hasher_digests(CHOOSE h \in hasher : TRUE)
       IN  /\ hasher' = {read.h}
           /\ result' = Call("digests", <<>>, Returned(<<read.ret>>))
    /\ UNCHANGED <<fed, opener, fnames, debs, heap, insts, writer, pc>>
    /\ UNCHANGED repository

NextHasher ==
    \/ \E algorithms \in AlgorithmArgs : HasherNew(algorithms)
    \/ HasherReset
    \/ \E data \in UpdateArgs : HasherUpdate(data)
    \/ HasherDigests

SpecHasher == InitHasher /\ [][NextHasher]_vars

(***************************************************************************)
(* compressr.Opener.  The Opener object is the record [preferences]; a     *)
(* Filename is the record [path, base_name, extension], the extension      *)
(* being {} for None.                                                      *)
(***************************************************************************)

\* the characters of the paths, in the order of their code points
CodePoints == "-./0123456789ABCDEFGHIJKLMNOPQRSTUVWXYZ_abcdefghijklmnopqrstuvwxyz"

\* ord(c), up to the order
Ord(c) == CHOOSE i \in 1..Len(CodePoints) : Char(CodePoints, i) = c

\* a < b for two strings
RECURSIVE StrLess(_, _)
StrLess(a, b) ==
    IF b = "" THEN FALSE
    ELSE IF a = "" THEN TRUE
    ELSE IF Char(a, 1) = Char(b, 1) THEN StrLess(SubSeq(a, 2, Len(a)), SubSeq(b, 2, Len(b)))
    ELSE Ord(Char(a, 1)) < Ord(Char(b, 1))

\* sorted(S) for a set of strings
RECURSIVE Sorted(_)
Sorted(S) ==
    IF S = {} THEN <<>>
    ELSE LET least == CHOOSE x \in S : \A y \in S : ~StrLess(y, x)
         IN  <<least>> \o Sorted(S \ {least})

\* the index of the last "." of p after position lo, 0 when there is none
RECURSIVE LastDot(_, _, _)
LastDot(p, i, lo) ==
    IF i <= lo THEN 0
    ELSE IF Char(p, i) = "." THEN i
    ELSE LastDot(p, i - 1, lo)

\* os.path.splitext(p): the extension starts at the last dot of the last
\* component that has a character other than a dot before it
splitext(p) ==
    LET sep == LastSlash(p, Len(p))
        dot == LastDot(p, Len(p), sep)
    IN  IF dot > 0 /\ \E i \in (sep + 1)..(dot - 1) : Char(p, i) # "."
        THEN <<SubSeq(p, 1, dot - 1), SubSeq(p, dot, Len(p))>>
        ELSE <<p, "">>

\* Opener._Decompressor_Factories: the extensions of each codec
_Decompressor_Factories ==
    [gz |-> <<"gz">>, xz |-> <<"xz">>, bz2 |-> <<"bz2", "bzip2">>]

\* Opener._normalize_extension(ext)
_normalize_extension(ext) == IF ext = "" THEN {} ELSE {SubSeq(ext, 2, Len(ext))}

\* Opener._File(fpath)
_File(fpath) ==
    LET parts == splitext(fpath)
    IN  [path |-> fpath, base_name |-> parts[1],
         extension |-> _normalize_extension(parts[2])]

\* Opener(preferences)
OpenerInit(preferences) ==
    [preferences |->
        IF preferences = {} \/ preferences = {<<>>} THEN <<"xz", "bz2", "gz">>
        ELSE SelectSeq(CHOOSE p \in preferences : TRUE,
                       LAMBDA x : x \in DOMAIN _Decompressor_Factories)]

\* a rank_dict that prefers a file without extension to any other
rank_dict_preferring_uncompressed(preferences) ==
    LET exts == UNION {Range(_Decompressor_Factories[preferences[i]]) :
                          i \in 1..Len(preferences)}
    IN  [e \in {{ext} : ext \in exts} \cup {{}} |-> IF e = {} THEN -1 ELSE 0]

\* the rank_dict of best_choice: the extensions of the preferred codecs, each
\* with the index of the last preference that has it, and None
rank_dict(preferences) ==
    LET ranked == 1..Len(preferences)
        exts == UNION {Range(_Decompressor_Factories[preferences[i]]) : i \in ranked}
        last(ext) == CHOOSE i \in ranked :
                        /\ ext \in Range(_Decompressor_Factories[preferences[i]])
                        /\ \A j \in ranked :
                              ext \in Range(_Decompressor_Factories[preferences[j]])
                                  => j <= i
    IN  [e \in {{ext} : ext \in exts} \cup {{}} |->
            IF e = {} THEN 1000 ELSE last(CHOOSE ext \in e : TRUE) - 1]

\* the lists of one element of choices[i] for each i, in the order of choices
RECURSIVE OneOfEach(_)
OneOfEach(choices) ==
    IF choices = <<>> THEN {<<>>}
    ELSE {<<c>> \o rest : c \in choices[1], rest \in OneOfEach(Tail(choices))}

\* Opener.best_choice(file_names): the lists it may return, min() taking any
\* of the files of a base name that have the least rank
best_choice(o, file_names) ==
    LET ranks == rank_dict(o.preferences)
        files == {f \in {_File(file_names[i]) : i \in 1..Len(file_names)} :
                     f.extension \in DOMAIN ranks}
        bases == Sorted({f.base_name : f \in files})
        objs(b) == {f \in files : f.base_name = b}
        least(b) == {f.path : f \in {g \in objs(b) :
                        \A h \in objs(b) : ranks[g.extension] <= ranks[h.extension]}}
    IN  OneOfEach([i \in 1..Len(bases) |-> least(bases[i])])

\* the most file names a caller gives to best_choice
MaxNames == 3

\* the file names given to best_choice
PathArgs ==
    {"path1/Packages.gz", "path1/Packages.xz", "path1/Packages.bz2",
     "path1/Packages.bzip2", "path1/Packages", "path1/Packages.leave-me-alone",
     "path0/Packages.gz"}

\* the lists of file names given to best_choice
NameLists == UNION {[1..n -> PathArgs] : n \in 0..MaxNames}

\* the preferences given to Opener
PreferenceArgs ==
    {{}, {<<"bz2", "gz">>}, {<<"gz", "lzo">>}, {<<"lzo">>}, {<<"gz", "xz", "gz">>}}

InitOpener ==
    /\ \E preferences \in PreferenceArgs : opener = {OpenerInit(preferences)}
    /\ fnames \in NameLists
    /\ result = Call("Opener", <<>>, Returned(<<>>))
    /\ hasher = {} /\ fed = "" /\ debs = <<>>
    /\ NoObjects
    /\ release = <<>> /\ cabs = <<>> /\ fs = <<>> /\ sopts = {}
    /\ spawned = <<>> /\ events = <<>> /\ parsed = {} /\ environ = <<>>

\* dobj = Opener(preferences)
OpenerNew(preferences) ==
    /\ opener' = {OpenerInit(preferences)}
    /\ result' = Call("Opener", <<>>, Returned(<<>>))
    /\ UNCHANGED <<hasher, fed, fnames, debs, heap, insts, writer, pc>>
    /\ UNCHANGED repository

\* dobj.best_choice(fnames)
OpenerBestChoice ==
    /\ \E ret \in best_choice(CHOOSE o \in opener : TRUE, fnames) :
          result' = Call("best_choice", fnames, Returned(ret))
    /\ UNCHANGED library
    /\ UNCHANGED repository

NextOpener ==
    \/ \E preferences \in PreferenceArgs : OpenerNew(preferences)
    \/ OpenerBestChoice

SpecOpener == InitOpener /\ [][NextOpener]_vars

(***************************************************************************)
(* SpecRelease: an AptRepoMeta with components [main] and the default      *)
(* architectures whose Release document was given checksum tables, asked   *)
(* for the index files of its pairs.                                       *)
(***************************************************************************)

\* the most entries one checksum table of the Release document has
MaxEntries == 2

\* the file names the checksum tables may list: the amd64 index and its gzip
\* form, the i386 index and the index of an architecture that is not declared
EntryNames ==
    <<"main/binary-amd64/Packages", "main/binary-amd64/Packages.gz",
      "main/binary-i386/Packages", "main/binary-armhf/Packages">>

\* an entry of the checksum table key, as dict(sha1="aaa", size="123", name=...)
TableEntry(key, name) == (key :> key \o " of " \o name) @@ [size |-> "123", name |-> name]

\* the checksum tables of key: no table ({}), or a table listing some of
\* EntryNames in their order
TableArgs(key) ==
    {{}} \cup
    {{[i \in 1..Len(picked) |-> TableEntry(key, EntryNames[picked[i]])]} :
        picked \in {p \in UNION {[1..n -> 1..Len(EntryNames)] : n \in 0..MaxEntries} :
                       \A i, j \in 1..Len(p) : i < j => p[i] < p[j]}}

\* release.update(SHA256=..., SHA1=..., MD5Sum=...) with the tables given
UpdateTables(rel, sha256, sha1, md5sum) ==
    LET put(r, key, table) ==
            IF table = {} THEN r ELSE SetItem(r, key, CHOOSE t \in table : TRUE)
    IN  put(put(put(rel, "sha256", sha256), "sha1", sha1), "md5sum", md5sum)

InitRelease ==
    /\ NoLibrary
    /\ \E sha256 \in TableArgs("sha256"), sha1 \in TableArgs("sha1"),
          md5sum \in TableArgs("md5sum") :
          LET m == AptRepoMetaInit({}, {}, {}, {}, {}, {"stable"}, {<<"main">>}, {}, {})
          IN  /\ release = UpdateTables(m.release, sha256, sha1, md5sum)
              /\ cabs = m.cabs
    /\ fs = <<>>
    /\ result = Call("__init__", <<>>, Returned(<<>>))
    /\ sopts = NoSignOptions
    /\ spawned = <<>>
    /\ events = <<>>
    /\ parsed = {}
    /\ environ = <<>>

\* meta.component_arch_binary_package_files_from_release()
MetaFilesFromRelease ==
    /\ result' = Call("component_arch_binary_package_files_from_release", <<>>,
                      Returned(component_arch_binary_package_files_from_release(
                                   TheMeta)))
    /\ UNCHANGED <<release, cabs, fs, sopts, spawned, events, parsed, environ>>
    /\ UNCHANGED library

NextRelease == MetaFilesFromRelease

SpecRelease == InitRelease /\ [][NextRelease]_vars

(***************************************************************************)
(* DebPkg comparison.  A DebPkg built from its parts is the record         *)
(* [c, h, md5].  A Debian version is [epoch:]upstream[-revision]; the      *)
(* versions of the model have parts of single digits separated by dots,    *)
(* for which the order of Debian versions is that of the strings.          *)
(***************************************************************************)

\* DebPkg(control, hashes, md5sums)
DebPkgInit(control, hashes, md5sums) == [c |-> control, h |-> hashes, md5 |-> md5sums]

\* the index of the first ":" of v, 0 when there is none
FirstColon(v) ==
    IF \E i \in 1..Len(v) : Char(v, i) = ":"
    THEN CHOOSE i \in 1..Len(v) : Char(v, i) = ":" /\ \A j \in 1..(i - 1) : Char(v, j) # ":"
    ELSE 0

\* the index of the last "-" of v, 0 when there is none
LastHyphen(v) ==
    IF \E i \in 1..Len(v) : Char(v, i) = "-"
    THEN CHOOSE i \in 1..Len(v) : Char(v, i) = "-" /\ \A j \in (i + 1)..Len(v) : Char(v, j) # "-"
    ELSE 0

\* debian_support.Version(v), as it is compared: the epoch (0 when absent),
\* the upstream version and the revision (0 when absent)
Version(v) ==
    LET colon == FirstColon(v)
        rest == SubSeq(v, colon + 1, Len(v))
        hyphen == LastHyphen(rest)
    IN  <<IF colon = 0 THEN "0" ELSE SubSeq(v, 1, colon - 1),
          IF hyphen = 0 THEN rest ELSE SubSeq(rest, 1, hyphen - 1),
          IF hyphen = 0 THEN "0" ELSE SubSeq(rest, hyphen + 1, Len(rest))>>

\* debian_support.version_compare(a, b)
version_compare(a, b) ==
    LET va == Version(a)
        vb == Version(b)
        differ == {i \in 1..3 : va[i] # vb[i]}
        first == CHOOSE i \in differ : \A j \in differ : i <= j
    IN  IF differ = {} THEN 0
        ELSE IF StrLess(va[first], vb[first]) THEN -1 ELSE 1

\* DebPkg.full_version
full_version(pkg) == pkg.c["version"]

\* a comparison that looks at the versions only
DebPkg_cmp_versions_only(self, other, same) ==
    IF same THEN 0 ELSE version_compare(full_version(self), full_version(other))

\* DebPkg.__cmp__(self, other), same telling that other is self
DebPkg_cmp(self, other, same) ==
    IF same THEN 0
    ELSE IF Version(full_version(self)) = Version(full_version(other))
    THEN (IF <<self.c, self.h, self.md5>> = <<other.c, other.h, other.md5>>
          THEN 0 ELSE -1)
    ELSE version_compare(full_version(self), full_version(other))

\* DebPkg.__eq__(self, other)
DebPkg_eq(self, other, same) == DebPkg_cmp(self, other, same) = 0

\* DebPkg.__lt__(self, other)
DebPkg_lt(self, other, same) == DebPkg_cmp(self, other, same) < 0

\* the Version fields of the packages compared
VersionArgs == {"1.0-1", "0:1.0-1", "1.0", "1.1-1"}

\* the packages compared: their control stanzas differ in the version or the
\* architecture, their hashes and MD5 maps in one digest
DebPkgArgs ==
    {DebPkgInit([package |-> "foo", version |-> v, architecture |-> a],
                [sha256 |-> HexDigest("sha256", bytes)],
                [usr_bin_foo |-> HexDigest("md5", member)]) :
        v \in VersionArgs, a \in {"amd64", "i386"}, bytes \in {"x", "y"},
        member \in {"x", "y"}}

InitPkg ==
    /\ \E self \in DebPkgArgs, other \in DebPkgArgs, same \in BOOLEAN :
          /\ same => self = other
          /\ debs = [self |-> self, other |-> other, same |-> same]
    /\ result = Call("DebPkg", <<>>, Returned(<<>>))
    /\ hasher = {} /\ fed = "" /\ opener = {} /\ fnames = <<>>
    /\ NoObjects
    /\ release = <<>> /\ cabs = <<>> /\ fs = <<>> /\ sopts = {}
    /\ spawned = <<>> /\ events = <<>> /\ parsed = {} /\ environ = <<>>

\* self == other
PkgEq ==
    /\ result' = Call("__eq__", <<>>,
                      Returned(<<DebPkg_eq(debs.self, debs.other, debs.same)>>))
    /\ UNCHANGED library
    /\ UNCHANGED repository

\* self != other
PkgNe ==
    /\ result' = Call("__ne__", <<>>,
                      Returned(<<~DebPkg_eq(debs.self, debs.other, debs.same)>>))
    /\ UNCHANGED library
    /\ UNCHANGED repository

\* self < other
PkgLt ==
    /\ result' = Call("__lt__", <<"self", "other">>,
                      Returned(<<DebPkg_lt(debs.self, debs.other, debs.same)>>))
    /\ UNCHANGED library
    /\ UNCHANGED repository

\* other < self
PkgLtSwapped ==
    /\ result' = Call("__lt__", <<"other", "self">>,
                      Returned(<<DebPkg_lt(debs.other, debs.self, debs.same)>>))
    /\ UNCHANGED library
    /\ UNCHANGED repository

NextPkg == PkgEq \/ PkgNe \/ PkgLt \/ PkgLtSwapped

SpecPkg == InitPkg /\ [][NextPkg]_vars

(***************************************************************************)
(* SpecShare: several AptRepoMeta instances, constructed from defaults or  *)
(* from one Release object of the caller.  The Release documents and the   *)
(* index lists are objects of heap, a sequence whose positions are their   *)
(* identities; an instance is the record [release, cabs] of the identities *)
(* of its Release document and of its _component_arch_binaries list.       *)
(***************************************************************************)

\* the most AptRepoMeta instances constructed
MaxInsts == 2

\* rel = deb822.Release(dict(Architectures="amd64 i386 aarch64"))
CallerRelease == [architectures |-> "amd64 i386 aarch64"]

\* a constructor that keeps the Release object it is given
Release_kept(h, given) ==
    IF given = {} THEN [heap |-> Append(h, <<>>), id |-> Len(h) + 1]
    ELSE [heap |-> h, id |-> CHOOSE r \in given : TRUE]

\* deb822.Release() or deb822.Release(release) in AptRepoMeta.__init__: a new
\* object, holding the fields of the one given
Release_copy(h, given) ==
    [heap |-> Append(h, IF given = {} THEN <<>> ELSE h[CHOOSE r \in given : TRUE]),
     id |-> Len(h) + 1]

\* AptRepoMeta(release=given, codename='stable', components=['main']): the
\* heap after the call and the instance
AptRepoMeta_new(h, given) ==
    LET rel == Release_copy(h, given)
        m == AptRepoMetaInit({rel.heap[rel.id]}, {}, {}, {}, {}, {"stable"},
                             {<<"main">>}, {}, {})
        h1 == [rel.heap EXCEPT ![rel.id] = m.release]
    IN  [heap |-> Append(h1, m.cabs),
         inst |-> [release |-> rel.id, cabs |-> Len(h1) + 1]]

\* the meta object of an instance
MetaOf(h, inst) ==
    [release |-> h[inst.release], cabs |-> h[inst.cabs], upstream_url |-> {}]

\* the heap after the instance became the meta object m
Stored(h, inst, m) ==
    [[h EXCEPT ![inst.release] = m.release] EXCEPT ![inst.cabs] = m.cabs]

\* the checksum table given to release.update
NewTable == <<TableEntry("sha256", "main/binary-amd64/Packages")>>

InitShare ==
    /\ heap = <<CallerRelease>>
    /\ insts = <<>>
    /\ result = Call("Release", <<>>, Returned(<<>>))
    /\ hasher = {} /\ fed = "" /\ opener = {} /\ fnames = <<>> /\ debs = <<>>
    /\ writer = {} /\ pc = "idle"
    /\ release = <<>> /\ cabs = <<>> /\ fs = <<>> /\ sopts = {}
    /\ spawned = <<>> /\ events = <<>> /\ parsed = {} /\ environ = <<>>

\* md = AptRepoMeta(rel, ...) when given is {1}, AptRepoMeta(...) when {}
ShareNew(given) ==
    /\ Len(insts) < MaxInsts
    /\ LET new == AptRepoMeta_new(heap, given)
       IN  /\ heap' = new.heap
           /\ insts' = Append(insts, new.inst)
           /\ result' = Call("AptRepoMeta", <<ToString(Len(insts) + 1)>>,
                             Returned(<<>>))
    /\ UNCHANGED <<hasher, fed, opener, fnames, debs, writer, pc>>
    /\ UNCHANGED repository

\* insts[i].architectures = values
ShareSetArchitectures(i, values) ==
    /\ LET m == MetaOf(heap, insts[i])
       IN  heap' = Stored(heap, insts[i],
                          [m EXCEPT !.release = set_architectures(m.release, values)])
    /\ result' = Call("architectures=", <<ToString(i)>>, Returned(<<>>))
    /\ UNCHANGED <<hasher, fed, opener, fnames, debs, insts, writer, pc>>
    /\ UNCHANGED repository

\* insts[i].components = values
ShareSetComponents(i, values) ==
    /\ result' = Call("components=", <<ToString(i)>>,
                      Raised("AttributeError", "can't set attribute"))
    /\ UNCHANGED library
    /\ UNCHANGED repository

\* insts[i].release.update(SHA256=NewTable)
ShareUpdateTables(i) ==
    /\ LET m == MetaOf(heap, insts[i])
       IN  heap' = Stored(heap, insts[i],
                          [m EXCEPT !.release = SetItem(m.release, "sha256", NewTable)])
    /\ result' = Call("release.update", <<ToString(i)>>, Returned(<<>>))
    /\ UNCHANGED <<hasher, fed, opener, fnames, debs, insts, writer, pc>>
    /\ UNCHANGED repository

\* insts[i].get_component_arch_binary(component, architecture)
ShareGet(i, component, architecture) ==
    /\ LET got == get_component_arch_binary(MetaOf(heap, insts[i]), component,
                                            architecture)
       IN  /\ heap' = Stored(heap, insts[i], got.meta)
           /\ result' = Call("get_component_arch_binary", <<ToString(i)>>, got.out)
    /\ UNCHANGED <<hasher, fed, opener, fnames, debs, insts, writer, pc>>
    /\ UNCHANGED repository

NextShare ==
    \/ \E given \in {{}, {1}} : ShareNew(given)
    \/ \E i \in 1..Len(insts) : ShareSetArchitectures(i, <<"amd64">>)
    \/ \E i \in 1..Len(insts) : ShareSetComponents(i, <<"main", "updates">>)
    \/ \E i \in 1..Len(insts) : ShareUpdateTables(i)
    \/ \E i \in 1..Len(insts) : ShareGet(i, "main", "amd64")

SpecShare == InitShare /\ [][NextShare]_vars

(***************************************************************************)
(* SpecWriter: compressr.MultiWriter.  A compressed stream is the name of  *)
(* its codec, a colon and the bytes it holds; only the decompressor of the *)
(* same codec reads it.  A file of fs receives the bytes of a handle when  *)
(* the handle is closed.                                                   *)
(***************************************************************************)

\* the most bytes written through one MultiWriter
MaxBytes == 6

\* Opener._Extension_to_decompressor
_Extension_to_decompressor ==
    [bzip2 |-> "bz2", gz |-> "gz", xz |-> "xz", bz2 |-> "bz2"]

\* what the factory of a codec leaves in the file for the bytes written
Encoded(codec, data) == IF codec = "" THEN data ELSE codec \o ":" \o data

\* the codec Opener.open(file_name, mode, uncompressed) uses: "" for the
\* built-in open, {} when the extension has no factory
CodecOf(file_name, uncompressed) ==
    LET f == _File(file_name)
    IN  IF uncompressed \/ f.extension = {} THEN {""}
        ELSE LET ext == CHOOSE e \in f.extension : TRUE
                 dname == GetItem(_Extension_to_decompressor, ext, ext)
             IN  IF dname \in DOMAIN _Decompressor_Factories THEN {dname} ELSE {}

\* Opener.open(file_name, "rb", uncompressed).read()
Opener_read(f, file_name, uncompressed) ==
    LET codec == CodecOf(file_name, uncompressed)
    IN  IF codec = {} THEN Raised("ValueError", "Unsupported file " \o file_name)
        ELSE IF file_name \notin DOMAIN f
        THEN Raised("IOError", "No such file or directory")
        ELSE LET c == CHOOSE x \in codec : TRUE
                 data == f[file_name].data
             IN  IF c = "" THEN Returned(<<data>>)
                 ELSE IF StartsWith(data, c \o ":")
                 THEN Returned(<<SubSeq(data, Len(c) + 2, Len(data))>>)
                 ELSE Raised("IOError", "Not a " \o c \o " file")

\* MultiWriter.file_names, as __init__ computes them
MultiWriter_file_names(fpath, extensions) ==
    LET supported_extensions ==
            SelectSeq(extensions, LAMBDA x : x \in DOMAIN _Extension_to_decompressor)
    IN  [i \in 1..Len(supported_extensions) |-> fpath \o "." \o supported_extensions[i]]
        \o (IF InSeq("", extensions) THEN <<fpath>> ELSE <<>>)

\* MultiWriter.reset(): the handles opened in "wb" mode, the files truncated
RECURSIVE Truncated(_, _)
Truncated(f, names) ==
    IF names = <<>> THEN f
    ELSE Truncated(SetItem(f, names[1], File("")), Tail(names))

MultiWriter_reset(w) ==
    [w EXCEPT !.file_objs =
        [i \in 1..Len(w.file_names) |->
            [name |-> w.file_names[i],
             codec |-> CHOOSE c \in CodecOf(w.file_names[i],
                                            w.file_names[i] = w.fpath) : TRUE,
             written |-> ""]]]

\* MultiWriter(fpath, extensions): None among the extensions is written ""
MultiWriterInit(fpath, extensions) ==
    MultiWriter_reset([fpath |-> fpath,
                       file_names |-> MultiWriter_file_names(fpath, extensions),
                       file_objs |-> <<>>])

\* a write that reaches the first handle only
MultiWriter_write_first(w, block) ==
    [w EXCEPT !.file_objs =
        [i \in 1..Len(w.file_objs) |->
            IF i = 1 THEN [w.file_objs[i] EXCEPT !.written = @ \o block]
            ELSE w.file_objs[i]]]

\* MultiWriter.write(block)
MultiWriter_write(w, block) ==
    [w EXCEPT !.file_objs =
        [i \in 1..Len(w.file_objs) |-> [w.file_objs[i] EXCEPT !.written = @ \o block]]]

\* MultiWriter.close(): the file system after every handle was closed
RECURSIVE Flushed(_, _)
Flushed(f, objs_left) ==
    IF objs_left = <<>> THEN f
    ELSE Flushed(SetItem(f, objs_left[1].name,
                         File(Encoded(objs_left[1].codec, objs_left[1].written))),
                 Tail(objs_left))

FpathArgs == {"/t/foo", "/t/foo.txt"}

ExtensionLists ==
    {<<"bzip2", "xz", "bz2", "gz", "">>, <<"gz", "">>, <<"zip", "xz">>, <<"">>}

BlockArgs == {"Test", "x"}

InitWriter ==
    /\ writer = {}
    /\ fed = ""
    /\ fs = <<>>
    /\ result = Call("compressr", <<>>, Returned(<<>>))
    /\ hasher = {} /\ opener = {} /\ fnames = <<>> /\ debs = <<>>
    /\ heap = <<>> /\ insts = <<>> /\ pc = "idle"
    /\ release = <<>> /\ cabs = <<>> /\ sopts = {}
    /\ spawned = <<>> /\ events = <<>> /\ parsed = {} /\ environ = <<>>

\* obj = MultiWriter(fpath, extensions)
WriterNew(fpath, extensions) ==
    /\ writer = {}
    /\ LET w == MultiWriterInit(fpath, extensions)
       IN  /\ writer' = {w}
           /\ fs' = Truncated(fs, w.file_names)
    /\ fed' = ""
    /\ result' = Call("MultiWriter", <<fpath>>, Returned(<<>>))
    /\ UNCHANGED <<release, cabs, sopts, spawned, events, parsed, environ>>
    /\ UNCHANGED <<hasher, opener, fnames, debs, heap, insts, pc>>

\* obj.write(block)
WriterWrite(block) ==
    /\ \E w \in writer :
          /\ Len(fed) + Len(block) <= MaxBytes
          /\ writer' = {MultiWriter_write(w, block)}
          /\ fed' = IF w.file_objs = <<>> THEN fed ELSE fed \o block
    /\ result' = Call("write", <<block>>, Returned(<<>>))
    /\ UNCHANGED repository
    /\ UNCHANGED <<hasher, opener, fnames, debs, heap, insts, pc>>

\* obj.close()
WriterClose ==
    /\ \E w \in writer :
          /\ fs' = Flushed(fs, w.file_objs)
          /\ writer' = {[w EXCEPT !.file_objs = <<>>]}
    /\ result' = Call("close", <<>>, Returned(<<>>))
    /\ UNCHANGED <<release, cabs, sopts, spawned, events, parsed, environ>>
    /\ UNCHANGED <<hasher, fed, opener, fnames, debs, heap, insts, pc>>

\* Opener().open(file_name, "rb", uncompressed).read() of a file of a closed
\* writer
WriterReopen(file_name, uncompressed) ==
    /\ \E w \in writer : w.file_objs = <<>> /\ InSeq(file_name, w.file_names)
    /\ result' = Call("open", <<file_name>>, Opener_read(fs, file_name, uncompressed))
    /\ UNCHANGED repository
    /\ UNCHANGED library

NextWriter ==
    \/ \E fpath \in FpathArgs, extensions \in ExtensionLists :
          WriterNew(fpath, extensions)
    \/ \E block \in BlockArgs : WriterWrite(block)
    \/ WriterClose
    \/ \E file_name \in DOMAIN fs, uncompressed \in BOOLEAN :
          WriterReopen(file_name, uncompressed)

SpecWriter == InitWriter /\ [][NextWriter]_vars

(***************************************************************************)
(* SpecIndex: writing the Packages index of (main, amd64) where the        *)
(* repository directory may already hold something at the path of the      *)
(* plain Packages file.  A file whose identity matters carries ino, its    *)
(* inode number.                                                           *)
(***************************************************************************)

\* the path of the plain Packages file of the index (main, amd64)
OldPackagesPath == "/repo/dists/stable/main/binary-amd64/Packages"

\* what an earlier run may have left there: a Packages file holding the
\* stanza of a package baz, or a directory
OldPackagesFile ==
    [type |-> "file", ino |-> 7,
     data |-> PackagesFile(<<[package |-> "baz", version |-> "9",
                              architecture |-> "amd64"]>>)]

OldEntries ==
    {<<>>, OldPackagesPath :> OldPackagesFile, OldPackagesPath :> Dir}

InitIndex ==
    /\ NoLibrary
    /\ LET m == AptRepoMetaInit({}, {}, {}, {}, {}, {"stable"}, {<<"main">>}, {}, {})
       IN  release = m.release /\ cabs = m.cabs
    /\ \E old \in OldEntries : fs = old @@ SrcFiles
    /\ result = Call("__init__", <<>>, Returned(<<>>))
    /\ sopts = NoSignOptions
    /\ spawned = <<>>
    /\ events = <<>>
    /\ parsed = {}
    /\ environ = <<>>

\* metadata.get_component_arch_binary(...).write_Packages(base_path), for an
\* index that exists
IndexWritePackages(i) ==
    /\ LET w == write_Packages(cabs[i], fs, BasePath, {})
       IN  /\ fs' = w.fs
           /\ events' = w.events
           /\ result' = Call("write_Packages",
                             <<cabs[i].release.component, cabs[i].release.architecture>>,
                             w.out)
    /\ UNCHANGED <<release, cabs, sopts, spawned, parsed, environ>>
    /\ UNCHANGED library

NextIndex ==
    \/ MetaGet("main", "amd64")
    \/ \E filenames \in FileLists, with_symlinks \in BOOLEAN :
          MetaAddPackages(filenames, "main", "amd64", with_symlinks)
    \/ \E i \in 1..Len(cabs) : IndexWritePackages(i)

SpecIndex == InitIndex /\ [][NextIndex]_vars

(***************************************************************************)
(* SpecDirs: utils.makedirs beside other processes that create files and   *)
(* directories.  A call takes two steps, the os.path.isdir test and the    *)
(* os.makedirs call; the other processes act before, between and after.    *)
(***************************************************************************)

\* the paths makedirs is called on and the other processes create
DirPaths == {"/r/a", "/r/a/b", "/r/c", "/r/c/d"}

\* os.path.isdir
IsDir(f, p) == p \in DOMAIN f /\ f[p].type = "dir"

\* the errno of an OSError
Errno(out) ==
    IF out.msg = "File exists" THEN 17
    ELSE IF out.msg = "Not a directory" THEN 20
    ELSE 2

\* os.makedirs(name, mode=0o755): the file system after the call and the
\* outcome
RECURSIVE os_makedirs(_, _)
os_makedirs(f, name) ==
    LET head == Dirname(name)
        up == IF head \in DOMAIN f THEN [fs |-> f, out |-> Returned(<<>>)]
              ELSE os_makedirs(f, head)
    IN  IF name \in DOMAIN f
        THEN [fs |-> f, out |-> Raised("OSError", "File exists")]
        ELSE IF ~up.out.ok THEN up
        ELSE IF up.fs[head].type # "dir"
        THEN [fs |-> up.fs, out |-> Raised("OSError", "Not a directory")]
        ELSE [fs |-> SetItem(up.fs, name, Dir), out |-> Returned(<<>>)]

\* what follows os.makedirs in utils.makedirs: errno 17 is not raised again
makedirs_outcome(dirName, out) ==
    IF out.ok \/ Errno(out) = 17 THEN Returned(<<dirName>>) ELSE out

InitDirs ==
    /\ fs = "/r" :> Dir
    /\ pc = "idle"
    /\ result = Call("utils", <<>>, Returned(<<>>))
    /\ hasher = {} /\ fed = "" /\ opener = {} /\ fnames = <<>> /\ debs = <<>>
    /\ heap = <<>> /\ insts = <<>> /\ writer = {}
    /\ release = <<>> /\ cabs = <<>> /\ sopts = {}
    /\ spawned = <<>> /\ events = <<>> /\ parsed = {} /\ environ = <<>>

\* utils.makedirs(dirName), up to the outcome of os.path.isdir(dirName)
MakedirsCheck(dirName) ==
    /\ pc = "idle"
    /\ IF IsDir(fs, dirName)
       THEN /\ result' = Call("makedirs", <<dirName>>, Returned(<<dirName>>))
            /\ pc' = "idle"
       ELSE /\ result' = Call("os.path.isdir", <<dirName>>, Returned(<<FALSE>>))
            /\ pc' = "create"
    /\ UNCHANGED <<hasher, fed, opener, fnames, debs, heap, insts, writer>>
    /\ UNCHANGED repository

\* the rest of utils.makedirs(dirName): os.makedirs and the except clause
MakedirsCreate ==
    /\ pc = "create"
    /\ LET dirName == result.args[1]
           made == os_makedirs(fs, dirName)
       IN  /\ fs' = made.fs
           /\ result' = Call("makedirs", <<dirName>>,
                             makedirs_outcome(dirName, made.out))
    /\ pc' = "idle"
    /\ UNCHANGED <<release, cabs, sopts, spawned, events, parsed, environ>>
    /\ UNCHANGED <<hasher, fed, opener, fnames, debs, heap, insts, writer>>

\* another process creates a directory or an empty file at p
OtherCreates(p, entry) ==
    /\ p \notin DOMAIN fs
    /\ IsDir(fs, Dirname(p))
    /\ fs' = SetItem(fs, p, entry)
    /\ UNCHANGED <<release, cabs, result, sopts, spawned, events, parsed, environ>>
    /\ UNCHANGED library

NextDirs ==
    \/ \E dirName \in DirPaths : MakedirsCheck(dirName)
    \/ MakedirsCreate
    \/ \E p \in DirPaths, entry \in {Dir, File("")} : OtherCreates(p, entry)

SpecDirs == InitDirs /\ [][NextDirs]_vars

(***************************************************************************)
(* SpecDeps: DebPkgRequires objects, which DebPkg builds from its control  *)
(* stanza.  The relation lists are objects of heap; an instance maps each  *)
(* slot to the identity of its list.  The lists of the class attribute     *)
(* _defaults are the first objects of heap, in the order of __slots__.     *)
(***************************************************************************)

\* the most relations one list holds
MaxRels == 3

\* DebPkgRequires.__slots__
__slots__ ==
    <<"depends", "pre_depends", "recommends", "suggests", "breaks", "conflicts",
      "provides", "replaces", "enhances">>

\* DebPkgRequires._defaults: the identity of the list of each slot
_defaults == [s \in Range(__slots__) |-> CHOOSE i \in 1..Len(__slots__) : __slots__[i] = s]

\* DebPkgRequires._handle_key(k)
_handle_key(k) ==
    LET parts == Split(Replace(k, "_", " "))
    IN  Join([i \in 1..Len(parts) |-> Capitalized(parts[i])], "-")

\* DebPkgRequires.parse(raw): the relations of a comma-separated field
parse(raw) == Split(Replace(raw, ",", " "))

\* the loop of DebPkgRequires.__init__ over the slots left: the heap after
\* it and the attributes set
RECURSIVE DebPkgRequires_loop(_, _, _, _)
DebPkgRequires_loop(h, attrs, slots_left, kwargs) ==
    IF slots_left = <<>> THEN [heap |-> h, inst |-> attrs]
    ELSE LET k == Head(slots_left)
             key == _handle_key(k)
         IN  IF key \in DOMAIN kwargs
             THEN DebPkgRequires_loop(Append(h, parse(kwargs[key])),
                                      SetItem(attrs, k, Len(h) + 1),
                                      Tail(slots_left), kwargs)
             ELSE DebPkgRequires_loop(h, SetItem(attrs, k, _defaults[k]),
                                      Tail(slots_left), kwargs)

\* DebPkgRequires(**kwargs)
DebPkgRequiresInit(h, kwargs) == DebPkgRequires_loop(h, <<>>, __slots__, kwargs)

\* DebPkgRequires.relations
relations(h, inst) == [x \in DOMAIN inst |-> h[inst[x]]]

\* the control fields DebPkg passes: none of a relation, or Depends
KwArgSets == {[Package |-> "foo"], [Package |-> "foo", Depends |-> "bar, baz"]}

InitDeps ==
    /\ heap = [i \in 1..Len(__slots__) |-> <<>>]
    /\ insts = <<>>
    /\ result = Call("debpkg", <<>>, Returned(<<>>))
    /\ hasher = {} /\ fed = "" /\ opener = {} /\ fnames = <<>> /\ debs = <<>>
    /\ writer = {} /\ pc = "idle"
    /\ release = <<>> /\ cabs = <<>> /\ fs = <<>> /\ sopts = {}
    /\ spawned = <<>> /\ events = <<>> /\ parsed = {} /\ environ = <<>>

\* deps = DebPkgRequires(**kwargs), as DebPkg.__init__ calls it
DepsNew(kwargs) ==
    /\ Len(insts) < MaxInsts
    /\ LET new == DebPkgRequiresInit(heap, kwargs)
       IN  /\ heap' = new.heap
           /\ insts' = Append(insts, new.inst)
    /\ result' = Call("DebPkgRequires",
                      <<ToString(Len(insts) + 1)>>
                         \o SelectSeq(__slots__,
                                      LAMBDA k : _handle_key(k) \in DOMAIN kwargs),
                      Returned(<<>>))
    /\ UNCHANGED <<hasher, fed, opener, fnames, debs, writer, pc>>
    /\ UNCHANGED repository

\* insts[i].<slot>.append(rel), slot being depends for pkg.depends
DepsAppend(i, slot, rel) ==
    /\ Len(heap[insts[i][slot]]) < MaxRels
    /\ heap' = [heap EXCEPT ![insts[i][slot]] = Append(@, rel)]
    /\ result' = Call("append", <<ToString(i), slot>>, Returned(<<>>))
    /\ UNCHANGED <<hasher, fed, opener, fnames, debs, insts, writer, pc>>
    /\ UNCHANGED repository

\* insts[i].relations
DepsRelations(i) ==
    /\ result' = Call("relations", <<ToString(i)>>,
                      Returned(<<relations(heap, insts[i])>>))
    /\ UNCHANGED library
    /\ UNCHANGED repository

NextDeps ==
    \/ \E kwargs \in KwArgSets : DepsNew(kwargs)
    \/ \E i \in 1..Len(insts), slot \in {"depends", "provides"} :
          DepsAppend(i, slot, "qux")
    \/ \E i \in 1..Len(insts) : DepsRelations(i)

SpecDeps == InitDeps /\ [][NextDeps]_vars

(***************************************************************************)
(* Properties of SpecMeta                                                  *)
(***************************************************************************)

\* the Filename a stanza of the index cab must have
PoolFilename(cab, stanza) ==
    "pool/" \o cab.release.component \o "/" \o stanza["package"] \o "_"
        \o stanza["version"] \o "_" \o stanza["architecture"] \o ".deb"

\* C20: whatever add_packages calls were made, every package stanza an index
\* holds has the Filename pool/<component>/<name>_<version>_<arch>.deb, the
\* component being that of the index, and a file or a symbolic link exists at
\* that path under base_path.
C20_StanzasPointIntoThePool ==
    \A i \in 1..Len(cabs) : \A k \in 1..Len(cabs[i].packages) :
        LET stanza == package(cabs[i].packages[k])
        IN  /\ "filename" \in DOMAIN stanza
            /\ stanza["filename"] = PoolFilename(cabs[i], stanza)
            /\ PathLExists(fs, PathJoin(BasePath, stanza["filename"]))

\* C20 witness: foo.deb and foo2.deb, two builds of the same name, version
\* and architecture, were added as symbolic links by one call; the index
\* holds both stanzas and the link at their path leads to foo2.deb
C20_Witness ==
    /\ result.op = "add_packages"
    /\ result.out.ok
    /\ \E i \in 1..Len(cabs) :
          /\ Len(cabs[i].packages) = 2
          /\ fs[PathJoin(BasePath, cabs[i].packages[1].c["filename"])]
                = Link("/in/foo2.deb")
          /\ cabs[i].packages[1].c["filename"] = cabs[i].packages[2].c["filename"]
          /\ cabs[i].packages[1].h # cabs[i].packages[2].h

\* C21: an AptRepoMeta constructed with a codename and components has Suite
\* equal to the codename, Description and Origin equal to the codename
\* capitalized, Label equal to Origin, Version 1.0, Architectures
\* "amd64 i386", and the Codename and Components it was given (a code bug:
\* Description, Origin and Label are the codename as it is written).
C21_DefaultsFromCodename ==
    result.op = "__init__" =>
        /\ release["codename"] = "stable"
        /\ release["suite"] = release["codename"]
        /\ release["description"] = Capitalized(release["codename"])
        /\ release["origin"] = Capitalized(release["codename"])
        /\ release["label"] = release["origin"]
        /\ release["version"] = "1.0"
        /\ release["architectures"] = "amd64 i386"
        /\ \E comps \in ComponentLists : release["components"] = Join(comps, " ")

\* C22: assigning a list to the architectures or to the components attribute
\* succeeds and rewrites the field of the Release document to the list joined
\* by spaces, so that the attribute, the whitespace-split of the field, reads
\* back as the list assigned (a code bug: components cannot be assigned).
C22_AssignedListsReadBack ==
    /\ result.op = "architectures=" =>
          /\ result.out.ok
          /\ release["architectures"] = Join(result.args, " ")
          /\ architectures(release) = result.args
    /\ result.op = "components=" =>
          /\ result.out.ok
          /\ release["components"] = Join(result.args, " ")
          /\ components(release) = result.args

(***************************************************************************)
(* Properties of SpecRepo                                                  *)
(***************************************************************************)

\* the Release document the last parse downloaded
DownloadedRelease == LoadRelease(ReadFile(fs, events[1].path))

\* the digest the Release document the last parse downloaded advertises for
\* the url: that of the entry of its name in the first of the SHA256 and SHA1
\* tables that has one, with the table's name
Advertised(url) ==
    LET rel == DownloadedRelease
        up == Dirname(events[1].url)
        lists(k) == k \in DOMAIN rel /\ \E j \in 1..Len(rel[k]) :
                                            PathJoin(up, rel[k][j].name) = url
        key == IF lists("sha256") THEN "sha256" ELSE "sha1"
        j == CHOOSE x \in 1..Len(rel[key]) : PathJoin(up, rel[key][x].name) = url
    IN  [alg |-> key, digest |-> rel[key][j][key]]

\* the file the download event e left holds the bytes the Release advertises
VerifiedEqual(e) ==
    HexDigest(Advertised(e.url).alg, ReadFile(fs, e.path)) = Advertised(e.url).digest

\* C1: in AptRepo.parse, an index is loaded only from a downloaded file whose
\* digest, recomputed with the algorithm of the digest the Release document
\* advertises for it, equals that digest; when the downloads are made and one
\* of them does not, the parse raises "Checksum did not match"; and the
\* package list of every index of the repository returned is that of a
\* verified download.
C1_LoadedOnlyWhenVerified ==
    result.op = "parse" =>
        /\ \A i \in 1..Len(events) :
              events[i].ev = "load" =>
                  \E j \in 2..(i - 1) :
                      /\ events[j].ev = "download"
                      /\ events[j].path = events[i].path
                      /\ VerifiedEqual(events[j])
        /\ (/\ result.out.ok \/ result.out.exc # "URLError"
            /\ \E j \in 2..Len(events) :
                  events[j].ev = "download" /\ ~VerifiedEqual(events[j]))
           => result.out = Raised("Exception", "Checksum did not match")
        /\ \A m \in parsed : \A c \in 1..Len(m.cabs) :
              \E j \in 2..Len(events) :
                  /\ events[j].ev = "download"
                  /\ VerifiedEqual(events[j])
                  /\ m.cabs[c].packages = iter_paragraphs(ReadFile(fs, events[j].path))

\* C1 witness: a parse that verified and loaded one index and then raised on
\* the next, whose file does not hold the bytes advertised
C1_Witness ==
    /\ result.op = "parse"
    /\ result.out = Raised("Exception", "Checksum did not match")
    /\ \E i \in 1..Len(events) : events[i].ev = "load"
    /\ \E j \in 2..Len(events) :
          events[j].ev = "download" /\ ~VerifiedEqual(events[j])

\* the positions of the last call's events that write the path p
WritesOf(p) == {i \in 1..Len(events) : events[i] = Event("write", p, "")}

\* the positions of the last call's events that spawn the signing command
Spawns == {i \in 1..Len(events) : events[i].ev = "spawn"}

\* the Packages files of the declared (component, architecture) pairs
DeclaredPackagesFiles ==
    {PathJoinAll(<<BasePath, "dists", release["codename"], c, "binary-" \o a,
                   "Packages" \o sfx>>) :
        c \in Range(components(release)), a \in Range(architectures(release)),
        sfx \in {"", ".gz", ".bz2"}}

\* C4: in AptRepo.create, the Release file is written after the Packages,
\* Packages.gz and Packages.bz2 files of every declared index and nothing is
\* written after it; the signing command is spawned last, after the Release
\* file was written, the Release file then listing every Packages file in
\* each of its three checksum tables; when writing a Packages file fails the
\* Release file is not written and no command is spawned; and with sign
\* options a create that writes the Release file spawns the command.
C4_PackagesThenReleaseThenSign ==
    result.op = "create" =>
        LET rel == PathJoinAll(<<BasePath, "dists", release["codename"], "Release">>)
        IN  /\ \A i \in WritesOf(rel) :
                  /\ \A p \in DeclaredPackagesFiles :
                        \E j \in WritesOf(p) : j < i
                  /\ \A j \in (i + 1)..Len(events) : events[j].ev # "write"
            /\ \A i \in Spawns :
                  /\ i = Len(events)
                  /\ events[i].path = rel
                  /\ \E j \in WritesOf(rel) : j < i
                  /\ \A k \in ChecksumFields :
                        /\ k \in DOMAIN LoadRelease(ReadFile(fs, rel))
                        /\ Len(LoadRelease(ReadFile(fs, rel))[k])
                               = Cardinality(DeclaredPackagesFiles)
            /\ (/\ ~result.out.ok
                /\ result.out.exc = "IOError"
                /\ result.out.msg \in DeclaredPackagesFiles)
               => (WritesOf(rel) = {} /\ Spawns = {})
            /\ (sopts # {} /\ WritesOf(rel) # {}) => Spawns # {}

\* C4 witness: a create with sign options that wrote the six Packages files,
\* then the Release file, then spawned the signing command
C4_Witness ==
    /\ result.op = "create"
    /\ Len(events) = 8
    /\ \A i \in 1..6 : events[i].ev = "write"
    /\ events[7] = Event("write", "/repo/dists/stable/Release", "")
    /\ events[8] = Event("spawn", "/repo/dists/stable/Release", "")

\* C5: after a create that succeeds on the repository with components [main]
\* and architectures [amd64, i386], the names of the entries of the SHA256
\* table and of the SHA1 table of the Release document are exactly the six
\* paths main/binary-{i386,amd64}/Packages{,.gz,.bz2}, each listed once.
C5_NamesRelativeToDist ==
    (result.op = "create" /\ result.out.ok) =>
        \A k \in {"sha256", "sha1"} :
            /\ k \in DOMAIN release
            /\ Len(release[k]) = 6
            /\ {release[k][i].name : i \in 1..Len(release[k])}
                   = {"main/binary-" \o a \o "/Packages" \o sfx :
                         a \in {"i386", "amd64"}, sfx \in {"", ".gz", ".bz2"}}

\* C6: when a create that succeeded is followed by a parse of the same
\* location with the same codename, the parse succeeds and, for every
\* declared (component, architecture) pair, the repository it returns has an
\* index whose package stanzas are, in order, the stanzas of the packages the
\* created index holds.
C6_CreateThenParse ==
    [][(/\ result.op = "create"
        /\ result.out.ok
        /\ result'.op = "parse"
        /\ result'.args = <<BasePath, release["codename"]>>) =>
       /\ result'.out.ok
       /\ \A c \in Range(components(release)), a \in Range(architectures(release)) :
             \E i \in 1..Len(cabs) :
                 /\ cabs[i].release.component = c
                 /\ cabs[i].release.architecture = a
                 /\ \E m \in parsed' : \E j \in 1..Len(m.cabs) :
                       /\ m.cabs[j].release.component = c
                       /\ m.cabs[j].release.architecture = a
                       /\ m.cabs[j].packages
                              = [k \in 1..Len(cabs[i].packages) |->
                                    package(cabs[i].packages[k])]]_vars

\* C8: a sign call that spawns the signing command decides its outcome by the
\* exit code of the command: with exit code 0 Signer.sign and AptRepo.sign
\* return the pair of the command's stdout and stderr handles and create
\* returns; with any other exit code all three raise a SignerError that
\* carries those two handles.
C8_ExitCodeDecides ==
    (/\ result.op \in {"Signer.sign", "AptRepo.sign", "create"}
     /\ sopts # {}
     /\ result.op = "create" => Spawns # {}) =>
        LET p == spawned[Len(spawned)]
        IN  /\ p.stdout # p.stderr
            /\ p.ret = 0 =>
                  IF result.op = "create" THEN result.out = Returned(<<>>)
                  ELSE result.out = Returned(<<p.stdout, p.stderr>>)
            /\ p.ret # 0 =>
                  /\ ~result.out.ok
                  /\ result.out.exc = "SignerError"
                  /\ result.out.stdout = {p.stdout}
                  /\ result.out.stderr = {p.stderr}

\* C8 witness: a create whose signing command exited with code 2 raised the
\* SignerError with the handles of that command
C8_Witness ==
    /\ result.op = "create"
    /\ Spawns # {}
    /\ spawned[Len(spawned)].ret = 2
    /\ ~result.out.ok
    /\ result.out.exc = "SignerError"
    /\ result.out.stdout = {spawned[Len(spawned)].stdout}

\* C9: after AptRepo.sign with sign options, the options' repository_name and
\* dist are the repository's codename and the environment of the command it
\* spawned has GPG_REPOSITORY_NAME and GPG_DIST, both the codename.
C9_NameAndDistInEnvironment ==
    (result.op = "AptRepo.sign" /\ sopts # {}) =>
        LET p == spawned[Len(spawned)]
            o == CHOOSE x \in sopts : TRUE
        IN  /\ o["repository_name"] = {StrVal(release["codename"])}
            /\ o["dist"] = {StrVal(release["codename"])}
            /\ "GPG_REPOSITORY_NAME" \in DOMAIN p.env
            /\ p.env["GPG_REPOSITORY_NAME"] = release["codename"]
            /\ "GPG_DIST" \in DOMAIN p.env
            /\ p.env["GPG_DIST"] = release["codename"]

\* C7: every Signer.sign(path) call made with sign options spawns a process
\* whose argument vector is exactly the words of the configured command
\* followed by that one path, and leaves the words stored in the SignOptions
\* as they were before the call.
C7_ArgvIsCommandThenPath ==
    [][(result'.op = "Signer.sign" /\ sopts # {}) =>
        LET before == CHOOSE o \in sopts : TRUE
            after == CHOOSE o \in sopts' : TRUE
        IN  /\ Len(spawned') = Len(spawned) + 1
            /\ spawned'[Len(spawned')].argv
                   = ShlexSplit(ValueOf(before, "cmd").s) \o <<result'.args[1]>>
            /\ after["_cmdargs"] = before["_cmdargs"]]_vars

\* the attributes of the SignOptions object that are not private and are set
PublicSetAttributes ==
    LET d == CHOOSE o \in sopts : TRUE
    IN  {k \in DOMAIN d : Char(k, 1) # "_" /\ d[k] # {}}

\* GPG_ followed by the attribute name, hyphens replaced by underscores,
\* upper-cased
ExpectedEnvName(k) == "GPG_" \o Upper(Replace(k, "-", "_"))

\* the string form of attribute k of the SignOptions object
ExpectedEnvValue(k) ==
    LET v == CHOOSE x \in (CHOOSE o \in sopts : TRUE)[k] : TRUE
    IN  IF "n" \in DOMAIN v THEN ToString(v.n) ELSE v.s

\* C10 as stated: as_environment returns exactly one entry for each attribute
\* that is not private and is set, named GPG_<NAME> and mapped to the string
\* form of the value, and no other entry.
C10_OneEntryPerAttribute ==
    result.op = "as_environment" =>
        /\ \A k \in PublicSetAttributes :
              /\ ExpectedEnvName(k) \in DOMAIN environ
              /\ environ[ExpectedEnvName(k)] = ExpectedEnvValue(k)
        /\ Cardinality(DOMAIN environ) = Cardinality(PublicSetAttributes)

\* C10 as amended: the names of the entries are exactly the GPG_<NAME> names
\* of the attributes that are not private and are set, each entry holds the
\* string form of an attribute with that name, and when no two such
\* attributes have the same GPG_<NAME> name there is exactly one entry for
\* each attribute, mapped to the string form of its value.
C10_EntriesAreTheNormalisedNames ==
    result.op = "as_environment" =>
        /\ DOMAIN environ = {ExpectedEnvName(k) : k \in PublicSetAttributes}
        /\ \A n \in DOMAIN environ :
              \E k \in PublicSetAttributes :
                  ExpectedEnvName(k) = n /\ environ[n] = ExpectedEnvValue(k)
        /\ (\A j, k \in PublicSetAttributes :
                ExpectedEnvName(j) = ExpectedEnvName(k) => j = k)
           => C10_OneEntryPerAttribute

\* C10 witness: cmd, repository_name='My repo' and an added extra='foo' give
\* exactly GPG_CMD, GPG_REPOSITORY_NAME and GPG_EXTRA
C10_Witness ==
    /\ result.op = "as_environment"
    /\ environ = [GPG_CMD |-> "/bin/sign", GPG_REPOSITORY_NAME |-> "My repo",
                  GPG_EXTRA |-> "foo"]

\* the first word of a command line that has one
FirstWord(c) == ShlexSplit(c)[1]

\* C11: SignOptions(cmd=c) raises a SignerError "Command not specified" when
\* c is empty or absent; otherwise "Command <x> is not a file" when the first
\* word x of c is not an existing regular file; otherwise "Command <x> is not
\* executable" when that file is not executable; and a construction that
\* fails leaves no options object, writes no file and spawns no process.
C11_BadCommandIsRejected ==
    [][result'.op = "SignOptions" =>
        LET c == result'.args[1]
            x == FirstWord(c)
            isfile == x \in DOMAIN fs /\ fs[x].type = "file"
        IN  /\ c = "" => result'.out = SignerError("Command not specified", {}, {})
            /\ (c # "" /\ ShlexSplit(c) # <<>> /\ ~isfile) =>
                  result'.out = SignerError("Command " \o x \o " is not a file",
                                            {}, {})
            /\ (c # "" /\ ShlexSplit(c) # <<>> /\ isfile /\ ~fs[x].data.exec) =>
                  result'.out = SignerError("Command " \o x \o " is not executable",
                                            {}, {})
            /\ ~result'.out.ok => (sopts' = {} /\ fs' = fs /\ spawned' = spawned)]_vars

\* C11 witness: SignOptions(cmd='/tmp') was refused because /tmp is a
\* directory
C11_Witness ==
    /\ result.op = "SignOptions"
    /\ result.args = <<"/tmp">>
    /\ result.out = SignerError("Command /tmp is not a file", {}, {})
    /\ sopts = {}

(***************************************************************************)
(* Properties of SpecHasher                                                *)
(***************************************************************************)

\* C12: every read of digests returns, for each selected algorithm hashlib
\* has, the digest of the concatenation of the data passed to update since
\* the construction or the last reset, whatever reads were made before; and
\* update with empty data changes nothing of the Hasher.
C12_DigestsAreNeverStale ==
    /\ [](result.op = "digests" =>
            \E h \in hasher :
               result.out.ret[1] = [x \in h.algorithms \cap _available_algorithms |->
                                       HexDigest(x, fed)])
    /\ [][(result'.op = "update" /\ result'.args = <<"">>) => hasher' = hasher]_vars

\* C12 witness: digests was read after the updates b"a" and b"b" and
\* returned the md5 digest of b"ab", which is now memoized
C12_Witness ==
    /\ result.op = "digests"
    /\ fed = "ab"
    /\ \E h \in hasher : "md5" \in DOMAIN h.hashers /\ h._digests # {}
    /\ result.out.ret[1]["md5"] = HexDigest("md5", "ab")

\* the names the Release document the last parse downloaded advertises, in
\* any of its checksum tables, for the files of directory dirname
AdvertisedNames(dirname) ==
    LET rel == DownloadedRelease
    IN  {rel[k][j].name : <<k, j>> \in
            {kj \in (ChecksumFields \cap DOMAIN rel) \X (1..4) :
                /\ kj[2] <= Len(rel[kj[1]])
                /\ Dirname(rel[kj[1]][kj[2]].name) = dirname}}

\* C15: every index the parse downloads is the one file best_choice, with
\* the default preferences, selects among the index files the Release
\* document advertises for the directory of that index (a code bug: the
\* request is for the first file the table lists).
C15_RequestIsTheBestChoice ==
    result.op = "parse" =>
        \A j \in 2..Len(events) :
            events[j].ev = "download" =>
                LET up == Dirname(events[1].url)
                    names == {n \in AdvertisedNames("main/binary-amd64")
                                     \cup AdvertisedNames("main/binary-i386") :
                                 Dirname(PathJoin(up, n)) = Dirname(events[j].url)}
                IN  best_choice(OpenerInit({}), Sorted(names))
                        = {<<SubSeq(events[j].url, Len(up) + 2, Len(events[j].url))>>}

\* the path of the plain Packages file of an index under BasePath
PlainPackagesPath(m, cab) ==
    PathJoinAll(<<BasePath, "dists", codename(m.release), cab.release.component,
                  "binary-" \o cab.release.architecture, "Packages">>)

\* C18: after a parse that succeeds, every index of the repository returned
\* has a plain Packages file at <base_path>/dists/<codename>/<component>/
\* binary-<architecture>/Packages holding its stanzas, and no downloaded
\* compressed form of it is left beside it (a code bug: the indexes are
\* downloaded to temporary files and loaded from there).
C18_PlainPackagesUnderBasePath ==
    (result.op = "parse" /\ result.out.ok) =>
        \A m \in parsed : \A c \in 1..Len(m.cabs) :
            LET path == PlainPackagesPath(m, m.cabs[c])
            IN  /\ IsFile(fs, path)
                /\ ReadFile(fs, path).kind = "packages"
                /\ m.cabs[c].packages = iter_paragraphs(ReadFile(fs, path))
                /\ \A ext \in {".gz", ".bz2", ".xz"} : ~PathLExists(fs, path \o ext)

(***************************************************************************)
(* Properties of SpecOpener                                                *)
(***************************************************************************)

\* the extensions of the known codecs
CodecExtensions == {"gz", "xz", "bz2", "bzip2"}

\* the compression extension of a path: that of a known codec, "" when the
\* file name has no extension at all, "?" when it has another extension
CompressionOf(p) ==
    IF \E e \in CodecExtensions : EndsWith(p, "." \o e)
    THEN CHOOSE e \in CodecExtensions : EndsWith(p, "." \o e)
    ELSE IF Contains(Basename(p), ".") THEN "?" ELSE ""

\* the path with its compression extension stripped
BaseOf(p) ==
    IF CompressionOf(p) \in CodecExtensions
    THEN SubSeq(p, 1, Len(p) - Len(CompressionOf(p)) - 1)
    ELSE p

\* the file names that are candidates: without extension or with that of a
\* known codec
Candidates(names) == {p \in Range(names) : CompressionOf(p) # "?"}

\* the place of a compression extension in the default preferences, no
\* extension coming last
DefaultRank(e) ==
    IF e = "xz" THEN 0 ELSE IF e \in {"bz2", "bzip2"} THEN 1 ELSE IF e = "gz" THEN 2 ELSE 3

\* C13: with the default preferences, best_choice returns one candidate for
\* each base name the candidates have and nothing else, in increasing order
\* of base name, and the candidate returned for a base name is one whose
\* extension is ranked earliest in xz, bz2, gz among the candidates of that
\* base name, a candidate without extension being ranked after all others.
C13_OneWinnerPerBaseName ==
    (result.op = "best_choice" /\ opener = {OpenerInit({})}) =>
        LET ret == result.out.ret
            cands == Candidates(result.args)
        IN  /\ \A i, j \in 1..Len(ret) : i < j => StrLess(BaseOf(ret[i]), BaseOf(ret[j]))
            /\ {BaseOf(ret[i]) : i \in 1..Len(ret)} = {BaseOf(p) : p \in cands}
            /\ \A i \in 1..Len(ret) :
                  /\ ret[i] \in cands
                  /\ \A q \in cands :
                        BaseOf(q) = BaseOf(ret[i]) =>
                            DefaultRank(CompressionOf(ret[i])) <= DefaultRank(CompressionOf(q))

\* C13 witness: among an uncompressed index, its xz sibling and a gz index of
\* a directory that sorts earlier, the default Opener chose the gz index and
\* then the xz one
C13_Witness ==
    /\ result.op = "best_choice"
    /\ opener = {OpenerInit({})}
    /\ result.args = <<"path1/Packages", "path1/Packages.xz", "path0/Packages.gz">>
    /\ result.out.ret = <<"path0/Packages.gz", "path1/Packages.xz">>

\* C14: whatever the preferences, a file name given to best_choice has no
\* winner of its base name in the result if and only if its extension is
\* neither absent nor that of a known codec (a code bug: the extension of a
\* codec that is not preferred is dropped as well).
C14_OnlyUnknownExtensionsAreDropped ==
    result.op = "best_choice" =>
        LET ret == result.out.ret
            kept == {p \in Range(result.args) :
                        \E i \in 1..Len(ret) : BaseOf(ret[i]) = BaseOf(p)}
        IN  kept = Candidates(result.args)

(***************************************************************************)
(* Properties of SpecRelease                                               *)
(***************************************************************************)

\* the declared (component, architecture) pairs
DeclaredPairs == Range(Product(components(release), architectures(release)))

\* the entries of the checksum table key of the Release document that name
\* a file of <component>/binary-<architecture>
ListedIn(key, pair) ==
    IF key \in DOMAIN release
    THEN SelectSeq(release[key],
                   LAMBDA e : Dirname(e.name) = pair[1] \o "/binary-" \o pair[2])
    ELSE <<>>

\* the record the result holds for the pair, if any
BoundTo(pair) ==
    {result.out.ret[i].flist : i \in
        {j \in 1..Len(result.out.ret) :
            <<result.out.ret[j].component, result.out.ret[j].architecture>> = pair}}

\* C16: when the Release document defines the MD5Sum table and neither SHA1
\* nor SHA256, every declared pair of which the MD5Sum table lists a file is
\* resolved, to the entries of that table (a code bug: the table is looked
\* up under the name MD5 and nothing is resolved).
C16_Md5SumAloneResolves ==
    (/\ result.op = "component_arch_binary_package_files_from_release"
     /\ "md5sum" \in DOMAIN release
     /\ "sha1" \notin DOMAIN release
     /\ "sha256" \notin DOMAIN release) =>
        \A pair \in DeclaredPairs :
            ListedIn("md5sum", pair) # <<>> => BoundTo(pair) = {ListedIn("md5sum", pair)}

\* the entries of the first of the tables keys that lists a file of the pair
RECURSIVE FirstListing(_, _)
FirstListing(keys, pair) ==
    IF keys = <<>> THEN <<>>
    ELSE IF ListedIn(Head(keys), pair) # <<>> THEN ListedIn(Head(keys), pair)
    ELSE FirstListing(Tail(keys), pair)

\* the result binds exactly the declared pairs that one of the tables keys
\* lists, each once and to the entries of the first table that lists it
BindsFirstOf(keys) ==
    /\ \A i \in 1..Len(result.out.ret) :
          <<result.out.ret[i].component, result.out.ret[i].architecture>>
              \in DeclaredPairs
    /\ \A i, j \in 1..Len(result.out.ret) :
          (/\ result.out.ret[i].component = result.out.ret[j].component
           /\ result.out.ret[i].architecture = result.out.ret[j].architecture) => i = j
    /\ \A pair \in DeclaredPairs :
          BoundTo(pair) = IF FirstListing(keys, pair) = <<>> THEN {}
                          ELSE {FirstListing(keys, pair)}

\* C17: the result binds each declared pair to the entries of the first of
\* the tables SHA256, SHA1, MD5Sum that lists a file of
\* <component>/binary-<architecture>, and binds no other pair (it fails only
\* for the pairs that MD5Sum alone lists, the code bug of C16).
C17_FirstTableWins ==
    result.op = "component_arch_binary_package_files_from_release" =>
        BindsFirstOf(<<"sha256", "sha1", "md5sum">>)

(***************************************************************************)
(* Properties of SpecPkg                                                   *)
(***************************************************************************)

\* the two packages have versions that compare equal, and the same control
\* stanza, hashes and MD5 map
SameVersionAndParts ==
    /\ version_compare(debs.self.c["version"], debs.other.c["version"]) = 0
    /\ debs.self.c = debs.other.c
    /\ debs.self.h = debs.other.h
    /\ debs.self.md5 = debs.other.md5

\* C19: two DebPkg objects compare equal exactly when their versions compare
\* equal and their control stanza, hashes and MD5 map are identical; != is
\* the negation.
C19_EqualIffVersionAndPartsEqual ==
    /\ result.op = "__eq__" => (result.out.ret[1] <=> SameVersionAndParts)
    /\ result.op = "__ne__" => (result.out.ret[1] <=> ~SameVersionAndParts)

\* C19 witness: two packages whose versions 1.0-1 and 0:1.0-1 compare equal
\* and whose control stanzas differ compared as not equal
C19_Witness ==
    /\ result.op = "__eq__"
    /\ debs.self.c["version"] = "1.0-1"
    /\ debs.other.c["version"] = "0:1.0-1"
    /\ debs.self.h = debs.other.h
    /\ result.out.ret = <<FALSE>>

\* C27: DebPkg objects are totally ordered, consistently with ==: of a < b,
\* a == b and b < a exactly one holds for any two packages a and b, those
\* with equal versions and different contents included.
C27_ExactlyOneOfLessEqualGreater ==
    result.op = "__lt__" =>
        LET this_way == result.out.ret[1]
            other_way == IF result.args = <<"self", "other">>
                         THEN DebPkg_lt(debs.other, debs.self, debs.same)
                         ELSE DebPkg_lt(debs.self, debs.other, debs.same)
            equal == DebPkg_eq(debs.self, debs.other, debs.same)
        IN  /\ this_way \/ equal \/ other_way
            /\ ~(this_way /\ equal)
            /\ ~(other_way /\ equal)
            /\ ~(this_way /\ other_way)

(***************************************************************************)
(* Properties of SpecShare                                                 *)
(***************************************************************************)

\* the Release document and the index list an instance sees
SeenBy(h, inst) == <<h[inst.release], h[inst.cabs]>>

\* C23: a call on one AptRepoMeta instance (assigning its architectures or
\* components, updating its checksum tables, creating an index in it) leaves
\* what every other instance sees unchanged, and no call changes the Release
\* object the instances were constructed from.
C23_InstancesShareNothing ==
    [][/\ heap'[1] = heap[1]
       /\ \A j \in 1..Len(insts) :
             ToString(j) # result'.args[1] => SeenBy(heap', insts[j]) = SeenBy(heap, insts[j])
      ]_vars

\* C23 witness: two instances were constructed from the caller's Release
\* object, the first was given the architectures [amd64], a checksum table and
\* an index, and the second still has the three architectures, no table and
\* no index
C23_Witness ==
    /\ Len(insts) = 2
    /\ architectures(heap[insts[1].release]) = <<"amd64">>
    /\ "sha256" \in DOMAIN heap[insts[1].release]
    /\ Len(heap[insts[1].cabs]) = 1
    /\ architectures(heap[insts[2].release]) = <<"amd64", "i386", "aarch64">>
    /\ "sha256" \notin DOMAIN heap[insts[2].release]
    /\ heap[insts[2].cabs] = <<>>
    /\ heap[1] = CallerRelease

(***************************************************************************)
(* Properties of SpecWriter                                                *)
(***************************************************************************)

\* the writer is closed
Closed == \E w \in writer : w.file_objs = <<>>

\* what re-opening a file of the writer in its own format reads
ReadBack(file_name) ==
    Opener_read(fs, file_name, \E w \in writer : file_name = w.fpath)

\* C24: after the writes and the close of a MultiWriter, every file it made
\* reads back, opened in its own format, as the concatenation of the blocks
\* written, and the plain file has as many bytes as were written.
C24_EverySiblingHoldsTheBlocks ==
    \A w \in writer :
        Closed =>
            /\ \A i \in 1..Len(w.file_names) :
                  ReadBack(w.file_names[i]) = Returned(<<fed>>)
            /\ InSeq(w.fpath, w.file_names) => Len(fs[w.fpath].data) = Len(fed)

\* C24 witness: a writer for the extensions bzip2, xz, bz2, gz and None was
\* closed after two blocks, and its five files exist
C24_Witness ==
    /\ Closed
    /\ fed = "Testx"
    /\ DOMAIN fs = {"/t/foo.bzip2", "/t/foo.xz", "/t/foo.bz2", "/t/foo.gz", "/t/foo"}
    /\ fs["/t/foo.bzip2"].data = "bz2:Testx"

\* C25: an add_packages call never fails because something exists at the
\* pool destination of a package: with symbolic links the existing entry, a
\* file, a link to a file or a link to nothing, is removed and replaced.
C25_ExistingDestinationIsReplaced ==
    [][~(/\ result'.op = "add_packages"
         /\ result'.out = Raised("OSError", "File exists"))]_vars

\* C28: whatever add_packages calls were made, the Size, MD5sum, SHA1 and
\* SHA256 of every package stanza of an index are those of the file at the
\* stanza's Filename under base_path, two builds of one name, version and
\* architecture added one after the other included.
C28_StanzasDescribeThePoolFile ==
    \A i \in 1..Len(cabs) : \A k \in 1..Len(cabs[i].packages) :
        LET stanza == package(cabs[i].packages[k])
            path == PathJoin(BasePath, stanza["filename"])
        IN  /\ PathExists(fs, path)
            /\ stanza["size"] = StatSize(fs, path)
            /\ stanza["md5sum"] = deb_hash_file(fs, path).md5sum
            /\ stanza["sha1"] = deb_hash_file(fs, path).sha1
            /\ stanza["sha256"] = deb_hash_file(fs, path).sha256

(***************************************************************************)
(* Properties of SpecIndex                                                 *)
(***************************************************************************)

\* the path of the plain Packages file of an index
PlainPathOf(cab) == PathJoin(BasePath, relative_path(cab, "Packages"))

\* C26: write_Packages removes what it finds at the path of the plain
\* Packages file: it succeeds when a directory is there, and when a file is
\* there the file it leaves is another file (another inode), holding the
\* stanzas of the index and nothing else, one blank line between two.
C26_OldPackagesEntryIsRemoved ==
    [][(result'.op = "write_Packages" /\ PathLExists(fs, OldPackagesPath)) =>
          /\ result'.out.ok
          /\ fs'[OldPackagesPath].type = "file"
          /\ "ino" \in DOMAIN fs[OldPackagesPath] =>
                ~(/\ "ino" \in DOMAIN fs'[OldPackagesPath]
                  /\ fs'[OldPackagesPath].ino = fs[OldPackagesPath].ino)
          /\ \E i \in 1..Len(cabs) :
                /\ PlainPathOf(cabs[i]) = OldPackagesPath
                /\ fs'[OldPackagesPath].data
                      = PackagesFile([k \in 1..Len(cabs[i].packages) |->
                                         package(cabs[i].packages[k])])
      ]_vars

(***************************************************************************)
(* Properties of SpecDirs                                                  *)
(***************************************************************************)

\* C29: when utils.makedirs(dirName) has returned, dirName is a directory,
\* whatever the other processes created before the call or between its test
\* and its os.makedirs; with a file that is not a directory at dirName the
\* call raises.  (No process of the specification removes anything, so a
\* directory stays one after the return.)
C29_ReturnedMeansDirectory ==
    (result.op = "makedirs" /\ result.out.ok) => IsDir(fs, result.args[1])

(***************************************************************************)
(* Properties of SpecDeps                                                  *)
(***************************************************************************)

\* C30: the relation lists of distinct DebPkgRequires objects are
\* independent: an append to the list one object has for a field changes
\* the list of no other object, and an object constructed without a field,
\* whenever it is constructed, has an empty list for it.
C30_RelationListsAreIndependent ==
    [][/\ result'.op = "append" =>
             \A j \in 1..Len(insts) :
                 ToString(j) # result'.args[1] =>
                     relations(heap', insts[j]) = relations(heap, insts[j])
       /\ (result'.op = "DebPkgRequires" /\ Len(insts') > Len(insts)) =>
             \A k \in Range(__slots__) :
                 ~InSeq(k, result'.args) =>
                     relations(heap', insts'[Len(insts')])[k] = <<>>
      ]_vars

====
